---- MODULE Spec2Model ----
(***************************************************************************)
(* Model of the CRM outbound-caller backend: the services that upsert      *)
(* projects and contacts, record call sessions, register terminal states   *)
(* and decide call eligibility, over a PostgreSQL store.                   *)
(*                                                                         *)
(* Conventions of the model                                                *)
(*  - The store is the set of COMMITTED rows of each table.  A transaction *)
(*    opened with getClient()/BEGIN keeps its uncommitted write in         *)
(*    tx[t].pending; COMMIT applies it, ROLLBACK drops it.  A statement    *)
(*    sent with query() runs on another pooled connection: it sees         *)
(*    committed rows only and commits on its own.                          *)
(*  - The services name the project table both `crm_projects` and          *)
(*    `projects`, and the phone column both `phonenumber` and `phone`; the *)
(*    model reads each pair as one relation / one column.                  *)
(*  - Values of string and boolean fields are strings; UNDEF is a field    *)
(*    absent from a payload (JavaScript undefined), NULL is SQL NULL.      *)
(*    Timestamps are hours since an epoch; NoTime is SQL NULL and          *)
(*    UndefTime an absent payload field.                                   *)
(*  - created_at / updated_at are not modelled.                            *)
(***************************************************************************)
EXTENDS Integers, Sequences, FiniteSets, TLC

VARIABLES
    now,               \* the clock (new Date() and NOW()), in hours
    projects,          \* committed rows of crm_projects
    contacts,          \* committed rows of contacts
    projectContacts,   \* committed rows of project_contacts
    callSessions,      \* committed rows of call_sessions
    terminalSessions,  \* committed rows of terminal_sessions
    tx,                \* per caller: the operation in progress
    ops,               \* number of operations started so far
    hist               \* the last two committed upserts (payload and row)

vars == <<now, projects, contacts, projectContacts, callSessions,
          terminalSessions, tx, ops, hist>>

tables == <<projects, contacts, projectContacts, callSessions, terminalSessions>>

-----------------------------------------------------------------------------
(* Bounds of the model *)

\* operations started in one behaviour
MaxOps == 3
\* last clock value
MaxTime == 2

\* concurrent callers (HTTP requests in flight)
Procs == {"t1", "t2"}

-----------------------------------------------------------------------------
(* Values *)

UNDEF == "undefined"
NULL == "NULL"
NoTime == -1
UndefTime == -2
NoId == 0

\* JavaScript truthiness of a payload value: undefined, null, '' and false
\* are falsy (booleans are the strings "true" / "false").
Falsy(v) == v \in {UNDEF, NULL, "", "false"}

\* v || d
OrElse(v, d) == IF Falsy(v) THEN d ELSE v

\* v || null for a timestamp payload field (a date string is truthy)
TimeOrNull(v) == IF v = UndefTime THEN NoTime ELSE v

\* an unused internal id (uuid_generate_v4): any id no row and no pending
\* write carries
FreshId(used) == CHOOSE i \in 1..(Cardinality(used) + 1) : i \notin used

NoRow == [id |-> NoId]
NoArg == [kind |-> "none"]
NoWrite == [kind |-> "none"]

\* found, project, contact: ids the lookups returned; stamp: the instant
\* `new Date()` gave; wrote: the side effects of the call that reached the
\* store outside its transaction; alone: see StartTx
IdleTx == [op |-> "none", pc |-> "idle", arg |-> NoArg, found |-> NoId,
           project |-> NoId, contact |-> NoId, stamp |-> NoTime,
           pending |-> NoWrite, result |-> NoRow, error |-> "none",
           wrote |-> {}, began |-> NoTime, alone |-> TRUE]

NoHist == [op |-> "none", arg |-> NoArg, row |-> NoRow]

\* a caller can start its next operation
Free(t) == tx[t].pc \in {"idle", "done", "failed"}

\* Caller t starts operation op at step pc with payload arg.  alone records
\* (for the statements about one call at a time) that no other operation
\* overlaps this one: it is cleared when another caller starts meanwhile.
StartTx(t, op, pc, arg) ==
    [u \in Procs |->
        IF u = t
        THEN [IdleTx EXCEPT !.op = op, !.pc = pc, !.arg = arg, !.began = now,
                            !.alone = \A v \in Procs \ {t} : Free(v)]
        ELSE IF Free(u) THEN tx[u] ELSE [tx[u] EXCEPT !.alone = FALSE]]

Finished(t) == tx[t].pc \in {"done", "failed"}

\* ids carried by committed rows of a table and by pending inserts into it
PendingIds(table) ==
    {tx[t].pending.row.id : t \in {u \in Procs : tx[u].pending.kind = "insert"
                                               /\ tx[u].pending.table = table}}

-----------------------------------------------------------------------------
(* ProjectService.upsertProject *)

ProjectKeys == {"pA", "pB"}

\* The payloads tried: per key, one that leaves every optional field out and
\* ones that carry a falsy or a plain value.  address stands for the fields
\* inserted as `field || null` (address, suburb, postcode, state, category,
\* awarded_date, budget, quotes_due_date).
ProjectPayload(k, a, c, n, s) ==
    [project_id |-> k, name |-> "n1", address |-> a, country |-> c,
     last_contacted_at |-> UndefTime, next_call_eligible_at |-> n,
     call_suppressed |-> s]

ProjectPayloads ==
    UNION {{ProjectPayload(k, UNDEF, UNDEF, UndefTime, UNDEF),
            ProjectPayload(k, "", UNDEF, UndefTime, "false"),
            ProjectPayload(k, "a1", "", UndefTime, UNDEF),
            ProjectPayload(k, UNDEF, "NZ", 1, "true")} : k \in ProjectKeys}

\* the row an INSERT of payload p stores
ProjectInsertRow(p, id) ==
    [id |-> id,
     project_id |-> p.project_id,
     name |-> p.name,
     address |-> OrElse(p.address, NULL),
     country |-> OrElse(p.country, "AU"),
     last_contacted_at |-> TimeOrNull(p.last_contacted_at),
     next_call_eligible_at |-> TimeOrNull(p.next_call_eligible_at),
     call_suppressed |-> OrElse(p.call_suppressed, "false")]

\* the row an UPDATE would leave if it wrote the INSERT's defaults for the
\* fields the payload does not carry
M_ProjectUpdateRow(row, p) ==
    [ProjectInsertRow(p, row.id) EXCEPT !.name = IF p.name # UNDEF THEN p.name ELSE row.name]

\* the row an UPDATE of payload p leaves: every field that is not undefined
\* in the payload is set to the payload's value as it is
ProjectUpdateRow(row, p) ==
    [id |-> row.id,
     project_id |-> row.project_id,
     name |-> IF p.name # UNDEF THEN p.name ELSE row.name,
     address |-> IF p.address # UNDEF THEN p.address ELSE row.address,
     country |-> IF p.country # UNDEF THEN p.country ELSE row.country,
     last_contacted_at |->
        IF p.last_contacted_at # UndefTime THEN p.last_contacted_at
        ELSE row.last_contacted_at,
     next_call_eligible_at |->
        IF p.next_call_eligible_at # UndefTime THEN p.next_call_eligible_at
        ELSE row.next_call_eligible_at,
     call_suppressed |->
        IF p.call_suppressed # UNDEF THEN p.call_suppressed
        ELSE row.call_suppressed]

ProjectByKey(k) == {r \in projects : r.project_id = k}
ProjectById(id) == {r \in projects : r.id = id}

\* another transaction holds an uncommitted write that this one waits for
OtherPending(t, table, pred(_)) ==
    \E u \in Procs \ {t} :
        /\ tx[u].pending.kind # "none"
        /\ tx[u].pending.table = table
        /\ pred(tx[u].pending.row)

\* an UPDATE that does not wait for the row lock
M_ProjectRowLocked(t, k) == FALSE

\* the row of project k is locked by another transaction's uncommitted write
ProjectRowLocked(t, k) ==
    OtherPending(t, "projects", LAMBDA r : r.project_id = k)

\* getClient(); BEGIN
P_Begin(t, p) ==
    /\ Free(t)
    /\ ops < MaxOps
    /\ ops' = ops + 1
    /\ tx' = StartTx(t, "upsertProject", "select", p)
    /\ UNCHANGED <<now, tables, hist>>

\* SELECT id FROM crm_projects WHERE project_id = $1
P_Select(t) ==
    /\ tx[t].op = "upsertProject"
    /\ tx[t].pc = "select"
    /\ LET rows == ProjectByKey(tx[t].arg.project_id) IN
       tx' = [tx EXCEPT ![t].found =
                            IF rows = {} THEN NoId ELSE (CHOOSE r \in rows : TRUE).id,
                        ![t].pc = IF rows = {} THEN "insert" ELSE "update"]
    /\ UNCHANGED <<now, tables, ops, hist>>

\* UPDATE crm_projects SET ... WHERE project_id = $n RETURNING *
\* (waits for a concurrent uncommitted update of the same row, then works on
\* the committed version)
P_Update(t) ==
    /\ tx[t].op = "upsertProject"
    /\ tx[t].pc = "update"
    /\ LET k == tx[t].arg.project_id
       IN /\ ~ProjectRowLocked(t, k)
          /\ LET row == CHOOSE r \in ProjectByKey(k) : TRUE
                 new == ProjectUpdateRow(row, tx[t].arg)
             IN tx' = [tx EXCEPT ![t].pending =
                                    [kind |-> "update", table |-> "projects", row |-> new],
                                 ![t].result = new,
                                 ![t].pc = "commit"]
    /\ UNCHANGED <<now, tables, ops, hist>>

\* INSERT INTO crm_projects ... RETURNING *
\* crm_projects_project_id_key: a committed row with the key is a unique
\* violation; an uncommitted one of another transaction makes the insert wait.
P_Insert(t) ==
    /\ tx[t].op = "upsertProject"
    /\ tx[t].pc = "insert"
    /\ LET k == tx[t].arg.project_id
           SameKey(r) == r.project_id = k
       IN /\ ~OtherPending(t, "projects", SameKey)
          /\ IF ProjectByKey(k) # {}
             THEN tx' = [tx EXCEPT ![t].error = "unique_violation",
                                   ![t].pc = "rollback"]
             ELSE LET id == FreshId({r.id : r \in projects} \cup PendingIds("projects"))
                      new == ProjectInsertRow(tx[t].arg, id)
                  IN tx' = [tx EXCEPT ![t].pending =
                                         [kind |-> "insert", table |-> "projects", row |-> new],
                                      ![t].result = new,
                                      ![t].pc = "commit"]
    /\ UNCHANGED <<now, tables, ops, hist>>

\* COMMIT; return mapRowToProject(result.rows[0])
P_Commit(t) ==
    /\ tx[t].op = "upsertProject"
    /\ tx[t].pc = "commit"
    /\ LET new == tx[t].pending.row IN
       /\ projects' = {r \in projects : r.id # new.id} \cup {new}
       /\ hist' = <<hist[2], [op |-> "upsertProject", arg |-> tx[t].arg, row |-> new]>>
    /\ tx' = [tx EXCEPT ![t].pending = NoWrite, ![t].pc = "done"]
    /\ UNCHANGED <<now, contacts, projectContacts, callSessions, terminalSessions, ops>>

\* catch: ROLLBACK; throw error
P_Rollback(t) ==
    /\ tx[t].op = "upsertProject"
    /\ tx[t].pc = "rollback"
    /\ tx' = [tx EXCEPT ![t].pending = NoWrite, ![t].result = NoRow, ![t].pc = "failed"]
    /\ UNCHANGED <<now, tables, ops, hist>>

upsertProject(t) ==
    \/ \E p \in ProjectPayloads : P_Begin(t, p)
    \/ P_Select(t)
    \/ P_Update(t)
    \/ P_Insert(t)
    \/ P_Commit(t)
    \/ P_Rollback(t)

-----------------------------------------------------------------------------
(* Specification of the project service: callers upsert projects            *)
(* concurrently into an empty store.                                        *)

InitEmpty ==
    /\ now = 0
    /\ projects = {}
    /\ contacts = {}
    /\ projectContacts = {}
    /\ callSessions = {}
    /\ terminalSessions = {}
    /\ tx = [t \in Procs |-> IdleTx]
    /\ ops = 0
    /\ hist = <<NoHist, NoHist>>

NextProject == \E t \in Procs : upsertProject(t)

SpecProject == InitEmpty /\ [][NextProject]_vars

-----------------------------------------------------------------------------
(* ContactService.upsertContact *)

ContactKeys == {"cA", "cB"}
Phones == {"ph1", "ph2"}
Emails == {"e1", "e2"}

\* name is required; do_not_call stands for the optional fields
ContactPayload(k, ph, e, d) ==
    [contact_id |-> k, name |-> "c1", email |-> e, phonenumber |-> ph,
     do_not_call |-> d]

\* The payloads tried: every combination of an external id and a phone, and
\* payloads that carry an email with or without the other two keys.
ContactPayloads ==
    {ContactPayload(k, ph, UNDEF, UNDEF) :
        k \in ContactKeys \cup {UNDEF}, ph \in Phones} \cup
    {ContactPayload(k, UNDEF, UNDEF, "true") : k \in ContactKeys} \cup
    {ContactPayload(UNDEF, UNDEF, e, UNDEF) : e \in Emails} \cup
    {ContactPayload("cA", "ph1", "e1", UNDEF), ContactPayload(UNDEF, "ph2", "e1", UNDEF)}

\* the row an INSERT of payload c stores
ContactInsertRow(c, id) ==
    [id |-> id,
     contact_id |-> OrElse(c.contact_id, NULL),
     name |-> c.name,
     email |-> OrElse(c.email, NULL),
     phonenumber |-> OrElse(c.phonenumber, NULL),
     do_not_call |-> OrElse(c.do_not_call, "false")]

\* the row an UPDATE of payload c leaves
ContactUpdateRow(row, c) ==
    [id |-> row.id,
     contact_id |-> IF c.contact_id # UNDEF THEN c.contact_id ELSE row.contact_id,
     name |-> IF c.name # UNDEF THEN c.name ELSE row.name,
     email |-> IF c.email # UNDEF THEN c.email ELSE row.email,
     phonenumber |-> IF c.phonenumber # UNDEF THEN c.phonenumber ELSE row.phonenumber,
     do_not_call |-> IF c.do_not_call # UNDEF THEN c.do_not_call ELSE row.do_not_call]

ContactByExternalId(k) == {r \in contacts : r.contact_id = k}
ContactByPhone(ph) == {r \in contacts : r.phonenumber = ph}
ContactByEmail(e) == {r \in contacts : r.email = e}
ContactById(id) == {r \in contacts : r.id = id}

\* result.rows[0].id of a lookup
FirstId(rows) == IF rows = {} THEN NoId ELSE (CHOOSE r \in rows : TRUE).id

\* (M_LookupOrder: the order with the phone tried first)
\* The lookups of a payload, in the order the service runs them: by
\* contact_id if given, then by phone if given, then by email if given.  Each
\* is one SELECT; the first that finds a row ends the resolution.
M_LookupOrder == <<"byPhone", "byId", "byEmail">>

\* (the order with the email asked before the phone)
M_LookupOrderEmailFirst == <<"byId", "byEmail", "byPhone">>

LookupOrder == <<"byId", "byPhone", "byEmail">>

LookupKey(c, step) ==
    CASE step = "byId" -> c.contact_id
      [] step = "byPhone" -> c.phonenumber
      [] step = "byEmail" -> c.email

LookupRows(c, step) ==
    CASE step = "byId" -> ContactByExternalId(c.contact_id)
      [] step = "byPhone" -> ContactByPhone(c.phonenumber)
      [] step = "byEmail" -> ContactByEmail(c.email)

\* the first lookup at position >= i whose key the payload carries, or
\* "insert" when there is none
NextLookup(c, i) ==
    LET later == {j \in i..Len(LookupOrder) : ~Falsy(LookupKey(c, LookupOrder[j]))}
    IN IF later = {} THEN "insert"
       ELSE LookupOrder[CHOOSE j \in later : \A m \in later : j <= m]

LookupIndex(step) == CHOOSE j \in 1..Len(LookupOrder) : LookupOrder[j] = step

\* idx_contacts_contact_id_unique: the state of the unique index for a write
\* by t that stores contact_id k in row id: "wait" while another transaction
\* holds an uncommitted row with k or an uncommitted change of the committed
\* row that has k, "violation" when a committed row other than id has k.
ContactIdIndex(t, k, id) ==
    LET holders == {r \in contacts : r.contact_id = k /\ r.id # id}
        HasKey(r) == r.contact_id = k
        Touches(r) == r.id \in {h.id : h \in holders}
    IN IF k = NULL THEN "ok"
       ELSE IF OtherPending(t, "contacts", HasKey)
               \/ OtherPending(t, "contacts", Touches) THEN "wait"
       ELSE IF holders # {} THEN "violation"
       ELSE "ok"

\* getClient(); BEGIN
C_Begin(t, c) ==
    /\ Free(t)
    /\ ops < MaxOps
    /\ ops' = ops + 1
    /\ tx' = StartTx(t, "upsertContact", NextLookup(c, 1), c)
    /\ UNCHANGED <<now, tables, hist>>

\* SELECT id FROM contacts WHERE contact_id = $1 / phonenumber = $1 / email = $1
\* (each SELECT reads the rows committed when it runs)
C_Select(t) ==
    /\ tx[t].op = "upsertContact"
    /\ tx[t].pc \in {"byId", "byPhone", "byEmail"}
    /\ LET id == FirstId(LookupRows(tx[t].arg, tx[t].pc)) IN
       tx' = [tx EXCEPT ![t].found = id,
                        ![t].pc = IF id # NoId THEN "update"
                                  ELSE NextLookup(tx[t].arg, LookupIndex(tx[t].pc) + 1)]
    /\ UNCHANGED <<now, tables, ops, hist>>

\* UPDATE contacts SET ... WHERE id = $n RETURNING *
C_Update(t) ==
    /\ tx[t].op = "upsertContact"
    /\ tx[t].pc = "update"
    /\ LET SameRow(r) == r.id = tx[t].found IN
       /\ ~OtherPending(t, "contacts", SameRow)
       /\ LET row == CHOOSE r \in ContactById(tx[t].found) : TRUE
              new == ContactUpdateRow(row, tx[t].arg)
              idx == ContactIdIndex(t, new.contact_id, new.id)
          IN /\ idx # "wait"
             /\ IF idx = "violation"
                THEN tx' = [tx EXCEPT ![t].error = "unique_violation",
                                      ![t].pc = "rollback"]
                ELSE tx' = [tx EXCEPT ![t].pending =
                                         [kind |-> "update", table |-> "contacts", row |-> new],
                                      ![t].result = new,
                                      ![t].pc = "commit"]
    /\ UNCHANGED <<now, tables, ops, hist>>

\* INSERT INTO contacts ... RETURNING *
C_Insert(t) ==
    /\ tx[t].op = "upsertContact"
    /\ tx[t].pc = "insert"
    /\ LET id == FreshId({r.id : r \in contacts} \cup PendingIds("contacts"))
           new == ContactInsertRow(tx[t].arg, id)
           idx == ContactIdIndex(t, new.contact_id, new.id)
       IN /\ idx # "wait"
          /\ IF idx = "violation"
             THEN tx' = [tx EXCEPT ![t].error = "unique_violation",
                                   ![t].pc = "rollback"]
             ELSE tx' = [tx EXCEPT ![t].pending =
                                      [kind |-> "insert", table |-> "contacts", row |-> new],
                                   ![t].result = new,
                                   ![t].pc = "commit"]
    /\ UNCHANGED <<now, tables, ops, hist>>

\* COMMIT; return mapRowToContact(result.rows[0])
C_Commit(t) ==
    /\ tx[t].op = "upsertContact"
    /\ tx[t].pc = "commit"
    /\ LET new == tx[t].pending.row IN
       /\ contacts' = {r \in contacts : r.id # new.id} \cup {new}
       /\ hist' = <<hist[2], [op |-> "upsertContact", arg |-> tx[t].arg, row |-> new]>>
    /\ tx' = [tx EXCEPT ![t].pending = NoWrite, ![t].pc = "done"]
    /\ UNCHANGED <<now, projects, projectContacts, callSessions, terminalSessions, ops>>

\* catch: ROLLBACK; throw error
C_Rollback(t) ==
    /\ tx[t].op = "upsertContact"
    /\ tx[t].pc = "rollback"
    /\ tx' = [tx EXCEPT ![t].pending = NoWrite, ![t].result = NoRow, ![t].pc = "failed"]
    /\ UNCHANGED <<now, tables, ops, hist>>

upsertContact(t) ==
    \/ \E c \in ContactPayloads : C_Begin(t, c)
    \/ C_Select(t)
    \/ C_Update(t)
    \/ C_Insert(t)
    \/ C_Commit(t)
    \/ C_Rollback(t)

(* Specification of the contact service: callers upsert contacts            *)
(* concurrently into an empty store.                                        *)

NextContact == \E t \in Procs : upsertContact(t)

SpecContact == InitEmpty /\ [][NextContact]_vars


(* Specification of one caller at a time: the calls never overlap.  No      *)
(* statement of such a call waits or fails (the lookup by contact_id has    *)
(* found any row the unique index would object to), so the ROLLBACK of the  *)
(* catch block is not among its steps.                                      *)

NextContactSeq ==
    \/ \E c \in ContactPayloads : C_Begin("t1", c)
    \/ C_Select("t1")
    \/ C_Update("t1")
    \/ C_Insert("t1")
    \/ C_Commit("t1")

SpecContactSeq == InitEmpty /\ [][NextContactSeq]_vars

(* Specification of both upsert services: callers upsert projects and       *)
(* contacts concurrently into an empty store.                               *)

NextUpsert == NextProject \/ NextContact

SpecUpsert == InitEmpty /\ [][NextUpsert]_vars

-----------------------------------------------------------------------------
(* ProjectContactService.upsertProjectContact *)

ProjectContactByPair(p, c) ==
    {r \in projectContacts : r.project_id = p /\ r.contact_id = c}

\* the row an INSERT stores for the pair
ProjectContactInsertRow(p, c, data, id) ==
    [id |-> id, project_id |-> p, contact_id |-> c,
     role_for_project |-> OrElse(data.role_for_project, NULL),
     last_contacted_at |-> TimeOrNull(data.last_contacted_at),
     suppress_for_project |-> OrElse(data.suppress_for_project, "false")]

\* the row an UPDATE leaves
ProjectContactUpdateRow(row, data) ==
    [row EXCEPT
        !.role_for_project =
            IF data.role_for_project # UNDEF THEN data.role_for_project ELSE @,
        !.last_contacted_at =
            IF data.last_contacted_at # UndefTime THEN data.last_contacted_at ELSE @,
        !.suppress_for_project =
            IF data.suppress_for_project # UNDEF THEN data.suppress_for_project ELSE @]

\* the table after upsertProjectContact(p, c, data) ran to its COMMIT
UpsertProjectContactRows(p, c, data) ==
    LET rows == ProjectContactByPair(p, c) IN
    IF rows # {}
    THEN (projectContacts \ rows) \cup {ProjectContactUpdateRow(r, data) : r \in rows}
    ELSE projectContacts \cup
         {ProjectContactInsertRow(p, c, data, FreshId({r.id : r \in projectContacts}))}

\* the preferences of a call: role_for_project stands for the role and
\* channel fields, UNDEF and UndefTime mark absent fields
LinkData(role, at, suppress) ==
    [role_for_project |-> role, last_contacted_at |-> at,
     suppress_for_project |-> suppress]

\* no field of fieldsToUpdate is in the data (the migration's link call, which
\* carries est_start_date and est_end_date only, is of this kind)
NoLinkField(data) ==
    /\ data.role_for_project = UNDEF
    /\ data.last_contacted_at = UndefTime
    /\ data.suppress_for_project = UNDEF

\* The calls tried: the stored project pA with contacts 1 and 2 and each kind
\* of preferences, and the project pX that is not stored.
LinkPayloads ==
    {[project_id |-> "pA", contact_id |-> c, data |-> d] :
        c \in {1, 2},
        d \in {LinkData(UNDEF, UndefTime, UNDEF), LinkData("r1", UndefTime, UNDEF),
               LinkData(UNDEF, 1, UNDEF), LinkData(UNDEF, UndefTime, "true")}}
    \cup {[project_id |-> "pX", contact_id |-> 1,
           data |-> LinkData("r1", UndefTime, UNDEF)]}

\* getClient(); BEGIN
PC_Begin(t, a) ==
    /\ Free(t)
    /\ ops < MaxOps
    /\ ops' = ops + 1
    /\ tx' = StartTx(t, "upsertProjectContact", "select", a)
    /\ UNCHANGED <<now, tables, hist>>

\* SELECT id FROM project_contacts WHERE project_id = $1 AND contact_id = $2
PC_Select(t) ==
    /\ tx[t].op = "upsertProjectContact"
    /\ tx[t].pc = "select"
    /\ LET rows == ProjectContactByPair(tx[t].arg.project_id, tx[t].arg.contact_id) IN
       tx' = [tx EXCEPT ![t].found = FirstId(rows),
                        ![t].pc = IF rows = {} THEN "insert" ELSE "update"]
    /\ UNCHANGED <<now, tables, ops, hist>>

\* UPDATE project_contacts SET ... WHERE project_id = $n AND contact_id = $m
\* RETURNING *; with no field to set the statement is `SET  WHERE`, a syntax
\* error
PC_Update(t) ==
    /\ tx[t].op = "upsertProjectContact"
    /\ tx[t].pc = "update"
    /\ LET a == tx[t].arg
           SamePair(r) == r.project_id = a.project_id /\ r.contact_id = a.contact_id
       IN IF NoLinkField(a.data)
          THEN tx' = [tx EXCEPT ![t].error = "syntax_error", ![t].pc = "rollback"]
          ELSE /\ ~OtherPending(t, "projectContacts", SamePair)
               /\ LET row == CHOOSE r \in ProjectContactByPair(a.project_id, a.contact_id) : TRUE
                      new == ProjectContactUpdateRow(row, a.data)
                  IN tx' = [tx EXCEPT ![t].pending =
                                         [kind |-> "update", table |-> "projectContacts",
                                          row |-> new],
                                      ![t].result = new,
                                      ![t].pc = "commit"]
    /\ UNCHANGED <<now, tables, ops, hist>>

\* INSERT INTO project_contacts ... RETURNING *
\* project_id REFERENCES crm_projects(project_id); project_contacts_unique:
\* a committed row of the pair is a unique violation, an uncommitted one of
\* another transaction makes the insert wait.
PC_Insert(t) ==
    /\ tx[t].op = "upsertProjectContact"
    /\ tx[t].pc = "insert"
    /\ LET a == tx[t].arg
           SamePair(r) == r.project_id = a.project_id /\ r.contact_id = a.contact_id
       IN /\ ~OtherPending(t, "projectContacts", SamePair)
          /\ IF ProjectByKey(a.project_id) = {}
             THEN tx' = [tx EXCEPT ![t].error = "foreign_key_violation",
                                   ![t].pc = "rollback"]
             ELSE IF ProjectContactByPair(a.project_id, a.contact_id) # {}
             THEN tx' = [tx EXCEPT ![t].error = "unique_violation",
                                   ![t].pc = "rollback"]
             ELSE LET id == FreshId({r.id : r \in projectContacts}
                                    \cup PendingIds("projectContacts"))
                      new == ProjectContactInsertRow(a.project_id, a.contact_id, a.data, id)
                  IN tx' = [tx EXCEPT ![t].pending =
                                         [kind |-> "insert", table |-> "projectContacts",
                                          row |-> new],
                                      ![t].result = new,
                                      ![t].pc = "commit"]
    /\ UNCHANGED <<now, tables, ops, hist>>

\* COMMIT; return mapRowToProjectContact(result.rows[0])
PC_Commit(t) ==
    /\ tx[t].op = "upsertProjectContact"
    /\ tx[t].pc = "commit"
    /\ LET new == tx[t].pending.row IN
       /\ projectContacts' = {r \in projectContacts : r.id # new.id} \cup {new}
       /\ hist' = <<hist[2], [op |-> "upsertProjectContact", arg |-> tx[t].arg, row |-> new]>>
    /\ tx' = [tx EXCEPT ![t].pending = NoWrite, ![t].pc = "done"]
    /\ UNCHANGED <<now, projects, contacts, callSessions, terminalSessions, ops>>

\* catch: ROLLBACK; throw error
PC_Rollback(t) ==
    /\ tx[t].op = "upsertProjectContact"
    /\ tx[t].pc = "rollback"
    /\ tx' = [tx EXCEPT ![t].pending = NoWrite, ![t].result = NoRow, ![t].pc = "failed"]
    /\ UNCHANGED <<now, tables, ops, hist>>

upsertProjectContact(t) ==
    \/ \E a \in LinkPayloads : PC_Begin(t, a)
    \/ PC_Select(t)
    \/ PC_Update(t)
    \/ PC_Insert(t)
    \/ PC_Commit(t)
    \/ PC_Rollback(t)

(* Specification of the association manager: callers link contacts to the   *)
(* stored project pA concurrently; no link is stored at the start.          *)

LinkProject ==
    [id |-> 1, project_id |-> "pA", name |-> "n1", address |-> NULL,
     country |-> "AU", last_contacted_at |-> NoTime,
     next_call_eligible_at |-> NoTime, call_suppressed |-> "false"]

InitLink ==
    /\ now = 0
    /\ projects = {LinkProject}
    /\ contacts = {}
    /\ projectContacts = {}
    /\ callSessions = {}
    /\ terminalSessions = {}
    /\ tx = [t \in Procs |-> IdleTx]
    /\ ops = 0
    /\ hist = <<NoHist, NoHist>>

NextLink == \E t \in Procs : upsertProjectContact(t)

SpecLink == InitLink /\ [][NextLink]_vars

-----------------------------------------------------------------------------
(* CallSessionService.createCallSession *)

\* hours added to `now` for next_call_eligible_at
CooldownHours == 24

SessionKeys == {"s1", "s2"}

\* call_status is passed as it is; outcome stands for the fields inserted as
\* `field || null`.  contact_id is an internal contact id (NoId: not given).
SessionPayload(k, p, c) ==
    [call_session_id |-> k, project_id |-> p, contact_id |-> c,
     call_status |-> "completed", outcome |-> UNDEF,
     started_at |-> UndefTime, ended_at |-> UndefTime]

\* The payloads tried: with and without a key and a contact for the stored
\* project pA, two for a project that does not exist (under a new key and
\* under the stored key s1) and one for a contact that does not exist.
SessionPayloads ==
    {SessionPayload(k, "pA", c) : k \in SessionKeys \cup {UNDEF}, c \in {NoId, 1}}
    \cup {SessionPayload("s2", "pX", NoId), SessionPayload("s1", "pX", NoId),
          SessionPayload(UNDEF, "pA", 9)}

CallSessionByKey(k) == {r \in callSessions : r.call_session_id = k}

\* the row the INSERT stores
CallSessionInsertRow(s, id, project, contact, at) ==
    [id |-> id,
     call_session_id |-> OrElse(s.call_session_id, NULL),
     project_id |-> project,
     contact_id |-> contact,
     call_status |-> s.call_status,
     outcome |-> OrElse(s.outcome, NULL),
     started_at |-> IF s.started_at = UndefTime THEN at ELSE s.started_at,
     ended_at |-> TimeOrNull(s.ended_at)]

\* mapRowToCallSession: project_id is the external id when the row comes from
\* the join with the project table (ext), the internal id otherwise
MapRowToCallSession(row, ext) ==
    [row EXCEPT !.project_id = IF ext # UNDEF THEN ext ELSE @]

\* the call_sessions rows a statement sent with query() sees while caller t
\* holds its transaction open: the pooled connection is another session, so
\* the committed rows only (M_PoolCallSessions: as if the statement ran on the
\* transaction's own connection)
M_PoolCallSessions(t) ==
    callSessions \cup
    (IF tx[t].pending.kind = "insert" /\ tx[t].pending.table = "callSessions"
     THEN {tx[t].pending.row} ELSE {})

PoolCallSessions(t) == callSessions

\* the idempotency lookup of payload s (M_ExistingSession: the lookup finds
\* nothing)
M_ExistingSession(s) == {}

ExistingSession(s) == CallSessionByKey(s.call_session_id)

\* idx_call_sessions_call_session_id_unique, for an insert of key k by t
SessionKeyIndex(t, k) ==
    LET HasKey(r) == r.call_session_id = k
    IN IF k = NULL THEN "ok"
       ELSE IF OtherPending(t, "callSessions", HasKey) THEN "wait"
       ELSE IF CallSessionByKey(k) # {} THEN "violation"
       ELSE "ok"

\* projectService.getProjectByExternalId: SELECT * FROM crm_projects WHERE
\* project_id = $1 (M_getProjectByExternalId: as if the lookup took any row)
M_getProjectByExternalId(projectId) == projects

getProjectByExternalId(projectId) == ProjectByKey(projectId)

\* getClient(); BEGIN
CS_Begin(t, s) ==
    /\ Free(t)
    /\ ops < MaxOps
    /\ ops' = ops + 1
    /\ tx' = StartTx(t, "createCallSession",
                     IF Falsy(s.call_session_id) THEN "getProject" ELSE "idem", s)
    /\ UNCHANGED <<now, tables, hist>>

\* SELECT * FROM call_sessions WHERE call_session_id = $1; a row found: COMMIT
\* and return it
CS_IdemCheck(t) ==
    /\ tx[t].op = "createCallSession"
    /\ tx[t].pc = "idem"
    /\ LET rows == ExistingSession(tx[t].arg) IN
       IF rows # {}
       THEN tx' = [tx EXCEPT ![t].result =
                                MapRowToCallSession(CHOOSE r \in rows : TRUE, UNDEF),
                             ![t].found = FirstId(rows),
                             ![t].pc = "commit"]
       ELSE tx' = [tx EXCEPT ![t].pc = "getProject"]
    /\ UNCHANGED <<now, tables, ops, hist>>

\* projectService.getProjectByExternalId(session.project_id), through query()
CS_GetProject(t) ==
    /\ tx[t].op = "createCallSession"
    /\ tx[t].pc = "getProject"
    /\ LET rows == getProjectByExternalId(tx[t].arg.project_id) IN
       IF rows = {}
       THEN tx' = [tx EXCEPT ![t].error = "project_not_found", ![t].pc = "rollback"]
       ELSE tx' = [tx EXCEPT ![t].project = FirstId(rows),
                             ![t].pc = IF tx[t].arg.contact_id # NoId
                                       THEN "contact" ELSE "insert"]
    /\ UNCHANGED <<now, tables, ops, hist>>

\* SELECT id FROM contacts WHERE id = $1 (a contact that is not found is
\* dropped from the session)
CS_ContactLookup(t) ==
    /\ tx[t].op = "createCallSession"
    /\ tx[t].pc = "contact"
    /\ tx' = [tx EXCEPT ![t].contact = FirstId(ContactById(tx[t].arg.contact_id)),
                        ![t].pc = "insert"]
    /\ UNCHANGED <<now, tables, ops, hist>>

\* INSERT INTO call_sessions ... RETURNING *
CS_Insert(t) ==
    /\ tx[t].op = "createCallSession"
    /\ tx[t].pc = "insert"
    /\ LET id == FreshId({r.id : r \in callSessions} \cup PendingIds("callSessions"))
           new == CallSessionInsertRow(tx[t].arg, id, tx[t].project, tx[t].contact, now)
           idx == SessionKeyIndex(t, new.call_session_id)
       IN /\ idx # "wait"
          /\ IF idx = "violation"
             THEN tx' = [tx EXCEPT ![t].error = "unique_violation",
                                   ![t].pc = "rollback"]
             ELSE tx' = [tx EXCEPT ![t].pending =
                                      [kind |-> "insert", table |-> "callSessions",
                                       row |-> new],
                                   ![t].pc = "reselect"]
    /\ UNCHANGED <<now, tables, ops, hist>>

\* The statements after the INSERT, one per step:
\*  reselect       query(SELECT cs.*, p.project_id ... WHERE cs.id = $1) and
\*                 mapRowToCallSession(rows[0]), which throws a TypeError on
\*                 an empty result
\*  lastContacted  projectService.updateLastContactedAt, through query()
\*  nextEligible   projectService.updateNextCallEligibleAt, through query()
\*  link           projectContactService.upsertProjectContact, in a
\*                 transaction of its own
CS_AfterInsert(t) ==
    /\ tx[t].op = "createCallSession"
    /\ tx[t].pc \in {"reselect", "lastContacted", "nextEligible", "link"}
    /\ LET k == tx[t].arg.project_id
           SameKey(r) == r.project_id = k
           seen == {r \in PoolCallSessions(t) :
                       r.id = tx[t].pending.row.id /\ ProjectById(r.project_id) # {}}
       IN CASE tx[t].pc = "reselect" ->
                 /\ IF seen = {}
                    THEN tx' = [tx EXCEPT ![t].error = "TypeError", ![t].pc = "rollback"]
                    ELSE tx' = [tx EXCEPT ![t].result =
                                             MapRowToCallSession(CHOOSE r \in seen : TRUE, k),
                                          ![t].stamp = now,
                                          ![t].pc = "lastContacted"]
                 /\ UNCHANGED <<projects, projectContacts>>
            [] tx[t].pc = "lastContacted" ->
                 /\ ~OtherPending(t, "projects", SameKey)
                 /\ projects' = {IF r.project_id = k
                                 THEN [r EXCEPT !.last_contacted_at = tx[t].stamp]
                                 ELSE r : r \in projects}
                 /\ tx' = [tx EXCEPT ![t].wrote = @ \cup {"last_contacted_at"},
                                     ![t].pc = "nextEligible"]
                 /\ UNCHANGED projectContacts
            [] tx[t].pc = "nextEligible" ->
                 /\ ~OtherPending(t, "projects", SameKey)
                 /\ projects' = {IF r.project_id = k
                                 THEN [r EXCEPT !.next_call_eligible_at =
                                                    tx[t].stamp + CooldownHours]
                                 ELSE r : r \in projects}
                 /\ tx' = [tx EXCEPT ![t].wrote = @ \cup {"next_call_eligible_at"},
                                     ![t].pc = IF tx[t].contact # NoId
                                               THEN "link" ELSE "commit"]
                 /\ UNCHANGED projectContacts
            [] tx[t].pc = "link" ->
                 /\ projectContacts' =
                       UpsertProjectContactRows(tx[t].project, tx[t].contact,
                           [role_for_project |-> UNDEF,
                            last_contacted_at |-> tx[t].stamp,
                            suppress_for_project |-> UNDEF])
                 /\ tx' = [tx EXCEPT ![t].wrote = @ \cup {"project_contact"},
                                     ![t].pc = "commit"]
                 /\ UNCHANGED projects
    /\ UNCHANGED <<now, contacts, callSessions, terminalSessions, ops, hist>>

\* COMMIT; return the session
CS_Commit(t) ==
    /\ tx[t].op = "createCallSession"
    /\ tx[t].pc = "commit"
    /\ callSessions' = IF tx[t].pending.kind = "insert"
                       THEN callSessions \cup {tx[t].pending.row}
                       ELSE callSessions
    /\ tx' = [tx EXCEPT ![t].pending = NoWrite,
                        ![t].wrote = IF tx[t].pending.kind = "insert"
                                     THEN @ \cup {"call_session"} ELSE @,
                        ![t].pc = "done"]
    /\ UNCHANGED <<now, projects, contacts, projectContacts, terminalSessions, ops, hist>>

\* catch: ROLLBACK; throw error
CS_Rollback(t) ==
    /\ tx[t].op = "createCallSession"
    /\ tx[t].pc = "rollback"
    /\ tx' = [tx EXCEPT ![t].pending = NoWrite, ![t].result = NoRow, ![t].pc = "failed"]
    /\ UNCHANGED <<now, tables, ops, hist>>

createCallSession(t) ==
    \/ \E s \in SessionPayloads : CS_Begin(t, s)
    \/ CS_IdemCheck(t)
    \/ CS_GetProject(t)
    \/ CS_ContactLookup(t)
    \/ CS_Insert(t)
    \/ CS_AfterInsert(t)
    \/ CS_Commit(t)
    \/ CS_Rollback(t)

\* the clock advances
Tick ==
    /\ now < MaxTime
    /\ now' = now + 1
    /\ UNCHANGED <<tables, tx, ops, hist>>

(* Specification of the session ledger: callers create call sessions        *)
(* concurrently, for a store that holds project pA, contact 1 and possibly  *)
(* a call session recorded earlier under the key s1.                        *)

SeedProject ==
    [id |-> 1, project_id |-> "pA", name |-> "n1", address |-> NULL,
     country |-> "AU", last_contacted_at |-> NoTime,
     next_call_eligible_at |-> NoTime, call_suppressed |-> "false"]

SeedContact ==
    [id |-> 1, contact_id |-> "cA", name |-> "c1", email |-> NULL,
     phonenumber |-> "ph1", do_not_call |-> "false"]

SeedSession ==
    [id |-> 1, call_session_id |-> "s1", project_id |-> 1, contact_id |-> NoId,
     call_status |-> "initiated", outcome |-> NULL, started_at |-> 0,
     ended_at |-> NoTime]

InitCall ==
    /\ now = 0
    /\ projects = {SeedProject}
    /\ contacts = {SeedContact}
    /\ projectContacts = {}
    /\ callSessions \in {{}, {SeedSession}}
    /\ terminalSessions = {}
    /\ tx = [t \in Procs |-> IdleTx]
    /\ ops = 0
    /\ hist = <<NoHist, NoHist>>

NextCall == Tick \/ \E t \in Procs : createCallSession(t)

SpecCall == InitCall /\ [][NextCall]_vars

-----------------------------------------------------------------------------
(* CallSessionService.updateCallSession: one UPDATE and one SELECT, each sent
   with query() and committed on its own. *)

\* The updates tried.  UNDEF and UndefTime mark absent fields; project_id,
\* contact_id and started_at are fields of the request that the service does
\* not list among fieldsToUpdate.
UpdatePayload(status, outcome, ended, project, contact, started) ==
    [call_status |-> status, outcome |-> outcome, ended_at |-> ended,
     project_id |-> project, contact_id |-> contact, started_at |-> started]

UpdatePayloads ==
    {UpdatePayload(UNDEF, UNDEF, UndefTime, UNDEF, NoId, UndefTime),
     UpdatePayload("failed", UNDEF, UndefTime, UNDEF, NoId, UndefTime),
     UpdatePayload(UNDEF, UNDEF, 1, UNDEF, NoId, UndefTime),
     UpdatePayload(UNDEF, "o1", UndefTime, "pB", 9, 1),
     UpdatePayload(UNDEF, UNDEF, UndefTime, "pB", NoId, 1)}

\* the SET list is empty: no field of fieldsToUpdate is given
NothingToSet(u) ==
    u.call_status = UNDEF /\ u.outcome = UNDEF /\ u.ended_at = UndefTime

\* the row with every field of the update written, the ones outside
\* fieldsToUpdate included
M_CallSessionUpdateRow(row, u) ==
    [row EXCEPT !.call_status = IF u.call_status # UNDEF THEN u.call_status ELSE @,
                !.outcome = IF u.outcome # UNDEF THEN u.outcome ELSE @,
                !.ended_at = IF u.ended_at # UndefTime THEN u.ended_at ELSE @,
                !.contact_id = IF u.contact_id # NoId THEN u.contact_id ELSE @,
                !.started_at = IF u.started_at # UndefTime THEN u.started_at ELSE @]

\* the row the UPDATE leaves: the given fields of fieldsToUpdate are set
CallSessionUpdateRow(row, u) ==
    [row EXCEPT !.call_status = IF u.call_status # UNDEF THEN u.call_status ELSE @,
                !.outcome = IF u.outcome # UNDEF THEN u.outcome ELSE @,
                !.ended_at = IF u.ended_at # UndefTime THEN u.ended_at ELSE @]

CallSessionById(id) == {r \in callSessions : r.id = id}

\* updateCallSession(sessionId, updates) is called
U_Begin(t, id, u) ==
    /\ Free(t)
    /\ ops < MaxOps
    /\ ops' = ops + 1
    /\ tx' = StartTx(t, "updateCallSession", "update", [id |-> id, updates |-> u])
    /\ UNCHANGED <<now, tables, hist>>

\* UPDATE call_sessions SET ... WHERE id = $n RETURNING *: a statement with an
\* empty SET list is rejected by the database; no row is "not found"
U_Update(t) ==
    /\ tx[t].op = "updateCallSession"
    /\ tx[t].pc = "update"
    /\ LET rows == CallSessionById(tx[t].arg.id) IN
       IF NothingToSet(tx[t].arg.updates)
       THEN /\ tx' = [tx EXCEPT ![t].error = "syntax_error", ![t].pc = "failed"]
            /\ UNCHANGED callSessions
       ELSE IF rows = {}
       THEN /\ tx' = [tx EXCEPT ![t].error = "session_not_found", ![t].pc = "failed"]
            /\ UNCHANGED callSessions
       ELSE /\ callSessions' =
                  (callSessions \ rows) \cup
                  {CallSessionUpdateRow(r, tx[t].arg.updates) : r \in rows}
            /\ tx' = [tx EXCEPT ![t].pc = "reselect"]
    /\ UNCHANGED <<now, projects, contacts, projectContacts, terminalSessions,
                   ops, hist>>

\* SELECT cs.*, p.project_id as external_project_id ... WHERE cs.id = $1;
\* return mapRowToCallSession(rows[0])
U_Reselect(t) ==
    /\ tx[t].op = "updateCallSession"
    /\ tx[t].pc = "reselect"
    /\ LET joined == {<<r, p>> \in CallSessionById(tx[t].arg.id) \X projects :
                         r.project_id = p.id}
       IN IF joined = {}
          THEN tx' = [tx EXCEPT ![t].error = "TypeError", ![t].pc = "failed"]
          ELSE LET rp == CHOOSE x \in joined : TRUE IN
               tx' = [tx EXCEPT ![t].result = MapRowToCallSession(rp[1], rp[2].project_id),
                                ![t].pc = "done"]
    /\ UNCHANGED <<now, tables, ops, hist>>

updateCallSession(t) ==
    \/ \E id \in {1, 2, 7}, u \in UpdatePayloads : U_Begin(t, id, u)
    \/ U_Update(t)
    \/ U_Reselect(t)

\* a session that has ended
EndedSession ==
    [id |-> 2, call_session_id |-> NULL, project_id |-> 1, contact_id |-> 1,
     call_status |-> "completed", outcome |-> "o0", started_at |-> 0,
     ended_at |-> 0]

\* the link of contact 1 to project pA, with a role and a suppression
SeedLink ==
    ProjectContactInsertRow(SeedProject.id, SeedContact.id,
                            LinkData("r1", UndefTime, "true"), 1)

\* The ledger with one session in progress and one ended, and contact 1
\* linked to project pA.
InitLedger ==
    /\ now = 0
    /\ projects = {SeedProject}
    /\ contacts = {SeedContact}
    /\ projectContacts = {SeedLink}
    /\ callSessions = {SeedSession, EndedSession}
    /\ terminalSessions = {}
    /\ tx = [t \in Procs |-> IdleTx]
    /\ ops = 0
    /\ hist = <<NoHist, NoHist>>

\* (no step of these operations depends on the hour, so the clock stands)
NextLedger ==
    \/ \E t \in Procs : createCallSession(t)
    \/ \E t \in Procs : updateCallSession(t)

SpecLedger == InitLedger /\ [][NextLedger]_vars

-----------------------------------------------------------------------------
(* TerminalService.hasActiveTerminalSession and CallEligibilityService.
   The queries only read; each is one step of its caller, who records the
   question in tx[t].arg, the instant in tx[t].began and the answer in
   tx[t].result.  The clock counts hours from a local midnight. *)

MAX_CALLS_PER_DAY == 3
MAX_CALLS_PER_WEEK == 10

\* the caller of the queries
Askers == {"t1"}

\* hasActiveTerminalSession with the rows that never expire only
M_hasActiveTerminalSession(scope, resourceId) ==
    \E r \in terminalSessions :
        /\ r.scope = scope
        /\ \/ scope = "global"
           \/ scope = "project" /\ r.project_id = resourceId
           \/ scope = "contact" /\ r.contact_id = resourceId
        /\ r.expires_at = NoTime

\* (as if the test were expires_at >= NOW())
M_hasActiveTerminalSessionAtExpiry(scope, resourceId) ==
    \E r \in terminalSessions :
        /\ r.scope = scope
        /\ \/ scope = "global"
           \/ scope = "project" /\ r.project_id = resourceId
           \/ scope = "contact" /\ r.contact_id = resourceId
        /\ (r.expires_at = NoTime \/ r.expires_at >= now)

\* a row of the scope, for the resource, with expires_at NULL or after NOW()
hasActiveTerminalSession(scope, resourceId) ==
    \E r \in terminalSessions :
        /\ r.scope = scope
        /\ \/ scope = "global"
           \/ scope = "project" /\ r.project_id = resourceId
           \/ scope = "contact" /\ r.contact_id = resourceId
        /\ (r.expires_at = NoTime \/ r.expires_at > now)

\* todayStart: `new Date()` with setHours(0, 0, 0, 0)
TodayStart == now - (now % 24)

\* weekStart: `new Date()` with setDate(getDate() - 7)
WeekStart == now - 7 * 24

\* SELECT COUNT(*) FROM call_sessions WHERE project_id = $1 (contact_id = $1
\* when projectId is null) AND started_at >= $2
CountCalls(projectId, contactId, since) ==
    Cardinality({r \in callSessions :
                    /\ IF projectId # NoId THEN r.project_id = projectId
                                           ELSE r.contact_id = contactId
                    /\ r.started_at >= since})

Allowed == [allowed |-> TRUE, reason |-> UNDEF]
Denied(reason) == [allowed |-> FALSE, reason |-> reason]

\* checkCallFatigue denying only above the limits (> for >=)
M_checkCallFatigue(projectId, contactId) ==
    IF projectId = NoId /\ contactId = NoId
    THEN Denied("Must provide project or contact ID")
    ELSE IF CountCalls(projectId, contactId, TodayStart) > MAX_CALLS_PER_DAY
    THEN Denied("Daily call limit reached")
    ELSE IF CountCalls(projectId, contactId, WeekStart) > MAX_CALLS_PER_WEEK
    THEN Denied("Weekly call limit reached")
    ELSE Allowed

checkCallFatigue(projectId, contactId) ==
    IF projectId = NoId /\ contactId = NoId
    THEN Denied("Must provide project or contact ID")
    ELSE IF CountCalls(projectId, contactId, TodayStart) >= MAX_CALLS_PER_DAY
    THEN Denied("Daily call limit reached")
    ELSE IF CountCalls(projectId, contactId, WeekStart) >= MAX_CALLS_PER_WEEK
    THEN Denied("Weekly call limit reached")
    ELSE Allowed

Eligible == [eligible |-> TRUE, reason |-> UNDEF]
NotEligible(reason) == [eligible |-> FALSE, reason |-> reason]

isProjectEligible(projectId) ==
    IF ProjectByKey(projectId) = {}
    THEN NotEligible("Project not found")
    ELSE LET project == CHOOSE r \in ProjectByKey(projectId) : TRUE
             fatigueCheck == checkCallFatigue(project.id, NoId)
         IN  IF ~Falsy(project.call_suppressed)
             THEN NotEligible("Project is suppressed")
             ELSE IF hasActiveTerminalSession("project", project.id)
             THEN NotEligible("Terminal session exists")
             ELSE IF /\ project.next_call_eligible_at # NoTime
                     /\ project.next_call_eligible_at > now
             THEN NotEligible("Cooldown period active")
             ELSE IF ~fatigueCheck.allowed
             THEN NotEligible(fatigueCheck.reason)
             ELSE Eligible

\* the project_contacts row of the pair asks for suppression
SuppressedForProject(projectId, contactId) ==
    /\ ~Falsy(projectId)
    /\ \E p \in ProjectByKey(projectId) :
          \E pc \in ProjectContactByPair(p.id, contactId) :
              ~Falsy(pc.suppress_for_project)

isContactEligible(contactId, projectId) ==
    IF ContactById(contactId) = {}
    THEN NotEligible("Contact not found")
    ELSE LET contact == CHOOSE r \in ContactById(contactId) : TRUE
             fatigueCheck == checkCallFatigue(NoId, contactId)
         IN  IF ~Falsy(contact.do_not_call)
             THEN NotEligible("Contact has do_not_call flag")
             ELSE IF hasActiveTerminalSession("contact", contact.id)
             THEN NotEligible("Terminal session exists")
             ELSE IF SuppressedForProject(projectId, contactId)
             THEN NotEligible("Contact suppressed for this project")
             ELSE IF ~fatigueCheck.allowed
             THEN NotEligible(fatigueCheck.reason)
             ELSE Eligible

\* the pair decision with the contact asked before the project
M_isProjectContactEligible(projectId, contactId) ==
    IF ~isContactEligible(contactId, projectId).eligible
    THEN isContactEligible(contactId, projectId)
    ELSE isProjectEligible(projectId)

\* the third check asks hasActiveTerminalSession('project', id, contactId),
\* which does not read its third argument
isProjectContactEligible(projectId, contactId) ==
    IF ~isProjectEligible(projectId).eligible
    THEN isProjectEligible(projectId)
    ELSE IF ~isContactEligible(contactId, projectId).eligible
    THEN isContactEligible(contactId, projectId)
    ELSE IF \E p \in ProjectByKey(projectId) :
                hasActiveTerminalSession("project", p.id)
    THEN NotEligible("Terminal session exists")
    ELSE Eligible

\* The rows the SELECT of getEligibleCalls joins and keeps.  score and at are
\* the ORDER BY columns priority_score and next_call_eligible_at.
CandidateRows ==
    {[project_id |-> p.project_id, contact_id |-> c.id,
      phonenumber |-> c.phonenumber, score |-> p.priority_score,
      at |-> p.next_call_eligible_at] :
        <<p, c>> \in {<<p, c>> \in projects \X contacts :
            /\ \E pc \in ProjectContactByPair(p.id, c.id) :
                  pc.suppress_for_project \in {"false", NULL}
            /\ p.call_suppressed = "false"
            /\ c.do_not_call = "false"
            /\ (p.next_call_eligible_at = NoTime \/ p.next_call_eligible_at <= now)
            /\ c.phonenumber \notin {NULL, ""}}}

\* a result without ORDER BY: any row may stand before any other
M_MayPrecede(r1, r2) == TRUE

\* ORDER BY priority_score DESC, next_call_eligible_at ASC NULLS FIRST:
\* row r1 may stand before row r2
MayPrecede(r1, r2) ==
    \/ r1.score > r2.score
    \/ /\ r1.score = r2.score
       /\ \/ r1.at = r2.at
          \/ r1.at = NoTime
          \/ r2.at # NoTime /\ r1.at < r2.at

\* the orders in which the database may return the rows
OrderedRows(rows) ==
    {s \in [1..Cardinality(rows) -> rows] :
        /\ \A i, j \in DOMAIN s : i # j => s[i] # s[j]
        /\ \A i, j \in DOMAIN s : i < j => MayPrecede(s[i], s[j])}

\* LIMIT $1
Limit(s, n) == SubSeq(s, 1, IF Len(s) < n THEN Len(s) ELSE n)

\* the checks of the loop over the returned rows
Admits(row) ==
    /\ ProjectByKey(row.project_id) # {}
    /\ LET projectInternalId == (CHOOSE p \in ProjectByKey(row.project_id) : TRUE).id
       IN  /\ ~hasActiveTerminalSession("project", projectInternalId)
           /\ ~hasActiveTerminalSession("contact", row.contact_id)
           /\ checkCallFatigue(projectInternalId, row.contact_id).allowed

\* the lists getEligibleCalls(limit) can return
getEligibleCalls(limit) ==
    {SelectSeq(Limit(s, limit), Admits) : s \in OrderedRows(CandidateRows)}

\* -- the stores the queries are asked on -----------------------------------

ProjectRow(id, k, suppressed, eligibleAt, score) ==
    [id |-> id, project_id |-> k, name |-> "n1", address |-> NULL,
     country |-> "AU", last_contacted_at |-> NoTime,
     next_call_eligible_at |-> eligibleAt, call_suppressed |-> suppressed,
     priority_score |-> score]

TerminalRow(id, scope, project, contact, expires) ==
    [id |-> id, terminal_id |-> NULL, scope |-> scope, project_id |-> project,
     contact_id |-> contact, reason |-> "opt_out", expires_at |-> expires,
     override_allowed |-> "false"]

\* n sessions of a project with a contact, started at the hour 0
SessionRows(project, contact, n) ==
    {[id |-> 10 * project + i, call_session_id |-> NULL,
      project_id |-> project, contact_id |-> contact,
      call_status |-> "completed", outcome |-> NULL, started_at |-> 0,
      ended_at |-> NoTime] : i \in 1..n}

\* expires_at of the stored terminal sessions: never, or at the hour 1
Expiries == {NoTime, 1}

\* Two projects linked to one contact; the flags, the cooldown, the terminal
\* sessions of each scope and the number of sessions vary.
InitElig ==
    /\ now = 0
    /\ projects \in
          {{ProjectRow(1, "pA", s, e, 1), ProjectRow(2, "pB", "false", NoTime, sc)} :
              s \in {"false", "true"}, e \in Expiries, sc \in {1, 2}}
    /\ contacts \in {{[SeedContact EXCEPT !.do_not_call = d]} : d \in {"false", "true"}}
    /\ projectContacts \in
          {{ProjectContactInsertRow(1, 1, [role_for_project |-> UNDEF,
                                          last_contacted_at |-> UndefTime,
                                          suppress_for_project |-> sp], 1),
            ProjectContactInsertRow(2, 1, [role_for_project |-> UNDEF,
                                          last_contacted_at |-> UndefTime,
                                          suppress_for_project |-> UNDEF], 2)} :
              sp \in {UNDEF, "true"}}
    /\ callSessions \in
          {SessionRows(1, 1, a) \cup SessionRows(2, 1, b) :
              a \in {0, 2, 3}, b \in {0, 1}}
    /\ terminalSessions \in
          {g \cup p \cup c :
              g \in {{}, {TerminalRow(1, "global", NoId, NoId, NoTime)}},
              p \in {{}} \cup {{TerminalRow(2, "project", 1, NoId, e)} : e \in Expiries},
              c \in {{}} \cup {{TerminalRow(3, "contact", NoId, 1, e)} : e \in Expiries}}
    /\ tx = [t \in Procs |-> IdleTx]
    /\ ops = 0
    /\ hist = <<NoHist, NoHist>>

\* caller t has asked op with arg just now and holds the answer
Answer(t, op, arg, result) ==
    [tx EXCEPT ![t] = [IdleTx EXCEPT !.op = op, !.pc = "done", !.arg = arg,
                                     !.began = now, !.result = result]]

Q_isProjectEligible(t) ==
    /\ \E k \in {"pA", "pB", "pX"} :
          tx' = Answer(t, "isProjectEligible",
                       [project_id |-> k, contact_id |-> NoId],
                       isProjectEligible(k))
    /\ UNCHANGED <<now, tables, ops, hist>>

Q_isContactEligible(t) ==
    /\ \E c \in {1, 9}, k \in {UNDEF, "pA", "pX"} :
          tx' = Answer(t, "isContactEligible",
                       [project_id |-> k, contact_id |-> c],
                       isContactEligible(c, k))
    /\ UNCHANGED <<now, tables, ops, hist>>

Q_isProjectContactEligible(t) ==
    /\ \E q \in {<<"pA", 1>>, <<"pB", 1>>, <<"pX", 1>>, <<"pA", 9>>} :
          tx' = Answer(t, "isProjectContactEligible",
                       [project_id |-> q[1], contact_id |-> q[2]],
                       isProjectContactEligible(q[1], q[2]))
    /\ UNCHANGED <<now, tables, ops, hist>>

Q_getEligibleCalls(t) ==
    /\ \E limit \in {1, 2} : \E rows \in getEligibleCalls(limit) :
          tx' = Answer(t, "getEligibleCalls", [limit |-> limit], [rows |-> rows])
    /\ UNCHANGED <<now, tables, ops, hist>>

NextElig ==
    \/ Tick
    \/ \E t \in Askers :
          \/ Q_isProjectEligible(t)
          \/ Q_isContactEligible(t)
          \/ Q_isProjectContactEligible(t)
          \/ Q_getEligibleCalls(t)

SpecElig == InitElig /\ [][NextElig]_vars

-----------------------------------------------------------------------------
(* TerminalService.createTerminalSession and removeTerminalSession *)

\* The requests tried.  project_id is an external project id (UNDEF: absent),
\* contact_id an internal contact id (NoId: absent).
TerminalPayload(k, scope, project, contact, expires, override) ==
    [terminal_id |-> k, scope |-> scope, project_id |-> project,
     contact_id |-> contact, expires_at |-> expires, override_allowed |-> override]

TerminalPayloads ==
    {TerminalPayload(UNDEF, "project", "pA", NoId, UndefTime, UNDEF),
     TerminalPayload(UNDEF, "project", UNDEF, NoId, UndefTime, UNDEF),
     TerminalPayload(UNDEF, "project", "pA", 1, UndefTime, UNDEF),
     TerminalPayload(UNDEF, "project", "pX", NoId, UndefTime, UNDEF),
     TerminalPayload("k1", "contact", UNDEF, 1, 2, "true"),
     TerminalPayload(UNDEF, "contact", UNDEF, NoId, UndefTime, UNDEF),
     TerminalPayload(UNDEF, "contact", UNDEF, 9, UndefTime, UNDEF),
     TerminalPayload(UNDEF, "global", "pA", NoId, UndefTime, "true")}

TerminalByKey(k) == {r \in terminalSessions : r.terminal_id = k}
TerminalById(id) == {r \in terminalSessions : r.id = id}

\* the row the INSERT stores, with the ids the scope resolution left
TerminalInsertRow(s, id, project, contact) ==
    [id |-> id, terminal_id |-> OrElse(s.terminal_id, NULL), scope |-> s.scope,
     project_id |-> project, contact_id |-> contact, reason |-> "opt_out",
     expires_at |-> TimeOrNull(s.expires_at),
     override_allowed |-> OrElse(s.override_allowed, "false")]

\* terminal_sessions_scope_check
ScopeCheck(r) ==
    \/ r.scope = "project" /\ r.project_id # NoId /\ r.contact_id = NoId
    \/ r.scope = "contact" /\ r.contact_id # NoId /\ r.project_id = NoId
    \/ r.scope = "global" /\ r.project_id = NoId /\ r.contact_id = NoId

\* idx_terminal_sessions_terminal_id_unique, for an insert by caller t
TerminalKeyIndex(t, k) ==
    LET HasKey(r) == r.terminal_id = k
    IN IF k = NULL THEN "ok"
       ELSE IF OtherPending(t, "terminalSessions", HasKey) THEN "wait"
       ELSE IF TerminalByKey(k) # {} THEN "violation"
       ELSE "ok"

\* the idempotency lookup of request s (M_ExistingTerminal: the lookup finds
\* nothing)
M_ExistingTerminal(s) == {}

ExistingTerminal(s) == TerminalByKey(s.terminal_id)

\* getClient(); BEGIN
T_Begin(t, s) ==
    /\ Free(t)
    /\ ops < MaxOps
    /\ ops' = ops + 1
    /\ tx' = StartTx(t, "createTerminalSession",
                     IF Falsy(s.terminal_id) THEN "resolve" ELSE "idem", s)
    /\ UNCHANGED <<now, tables, hist>>

\* SELECT * FROM terminal_sessions WHERE terminal_id = $1; a row found: COMMIT
\* and return it
T_IdemCheck(t) ==
    /\ tx[t].op = "createTerminalSession"
    /\ tx[t].pc = "idem"
    /\ LET rows == ExistingTerminal(tx[t].arg) IN
       IF rows # {}
       THEN tx' = [tx EXCEPT ![t].result = CHOOSE r \in rows : TRUE,
                             ![t].found = FirstId(rows),
                             ![t].pc = "commit"]
       ELSE tx' = [tx EXCEPT ![t].pc = "resolve"]
    /\ UNCHANGED <<now, tables, ops, hist>>

\* the ids are resolved by scope: a project scope with a project_id looks the
\* project up (through query()), a contact scope with a contact_id takes it as
\* it is; every other id of the request is left out
T_Resolve(t) ==
    /\ tx[t].op = "createTerminalSession"
    /\ tx[t].pc = "resolve"
    /\ LET s == tx[t].arg IN
       IF s.scope = "project" /\ ~Falsy(s.project_id)
       THEN IF ProjectByKey(s.project_id) # {}
            THEN tx' = [tx EXCEPT ![t].project = FirstId(ProjectByKey(s.project_id)),
                                  ![t].pc = "insert"]
            ELSE tx' = [tx EXCEPT ![t].error = "project_not_found",
                                  ![t].pc = "rollback"]
       ELSE IF s.scope = "contact" /\ s.contact_id # NoId
       THEN tx' = [tx EXCEPT ![t].contact = s.contact_id, ![t].pc = "insert"]
       ELSE tx' = [tx EXCEPT ![t].pc = "insert"]
    /\ UNCHANGED <<now, tables, ops, hist>>

\* INSERT INTO terminal_sessions ... RETURNING *: the scope check, the foreign
\* key of contact_id and the unique index of terminal_id can reject it
T_Insert(t) ==
    /\ tx[t].op = "createTerminalSession"
    /\ tx[t].pc = "insert"
    /\ LET id == FreshId({r.id : r \in terminalSessions}
                         \cup PendingIds("terminalSessions"))
           new == TerminalInsertRow(tx[t].arg, id, tx[t].project, tx[t].contact)
           idx == TerminalKeyIndex(t, new.terminal_id)
       IN /\ idx # "wait"
          /\ IF ~ScopeCheck(new)
             THEN tx' = [tx EXCEPT ![t].error = "check_violation",
                                   ![t].pc = "rollback"]
             ELSE IF new.contact_id # NoId /\ ContactById(new.contact_id) = {}
             THEN tx' = [tx EXCEPT ![t].error = "foreign_key_violation",
                                   ![t].pc = "rollback"]
             ELSE IF idx = "violation"
             THEN tx' = [tx EXCEPT ![t].error = "unique_violation",
                                   ![t].pc = "rollback"]
             ELSE tx' = [tx EXCEPT ![t].pending =
                                      [kind |-> "insert", table |-> "terminalSessions",
                                       row |-> new],
                                   ![t].result = new,
                                   ![t].pc = "commit"]
    /\ UNCHANGED <<now, tables, ops, hist>>

\* COMMIT; return mapRowToTerminalSession(...)
T_Commit(t) ==
    /\ tx[t].op = "createTerminalSession"
    /\ tx[t].pc = "commit"
    /\ terminalSessions' = IF tx[t].pending.kind = "insert"
                           THEN terminalSessions \cup {tx[t].pending.row}
                           ELSE terminalSessions
    /\ tx' = [tx EXCEPT ![t].pending = NoWrite, ![t].pc = "done"]
    /\ UNCHANGED <<now, projects, contacts, projectContacts, callSessions, ops, hist>>

\* catch: ROLLBACK; throw error
T_Rollback(t) ==
    /\ tx[t].op = "createTerminalSession"
    /\ tx[t].pc = "rollback"
    /\ tx' = [tx EXCEPT ![t].pending = NoWrite, ![t].result = NoRow, ![t].pc = "failed"]
    /\ UNCHANGED <<now, tables, ops, hist>>

createTerminalSession(t) ==
    \/ \E s \in TerminalPayloads : T_Begin(t, s)
    \/ T_IdemCheck(t)
    \/ T_Resolve(t)
    \/ T_Insert(t)
    \/ T_Commit(t)
    \/ T_Rollback(t)

\* the override check letting every row through
M_CanRemove(row) == TRUE

\* `if (!session.override_allowed) throw`
CanRemove(row) == ~Falsy(row.override_allowed)

\* the removal expiring the row an hour from now
M_ExpiredRow(row) == [row EXCEPT !.expires_at = now + 1]

\* UPDATE terminal_sessions SET expires_at = NOW()
ExpiredRow(row) == [row EXCEPT !.expires_at = now]

\* removeTerminalSession(id) is called
R_Begin(t, id) ==
    /\ Free(t)
    /\ ops < MaxOps
    /\ ops' = ops + 1
    /\ tx' = StartTx(t, "removeTerminalSession", "get", [id |-> id])
    /\ UNCHANGED <<now, tables, hist>>

\* getTerminalSessionById(id): no row returns false, a row that may not be
\* overridden throws
R_Get(t) ==
    /\ tx[t].op = "removeTerminalSession"
    /\ tx[t].pc = "get"
    /\ LET rows == TerminalById(tx[t].arg.id) IN
       IF rows = {}
       THEN tx' = [tx EXCEPT ![t].result = [removed |-> FALSE], ![t].pc = "done"]
       ELSE IF ~CanRemove(CHOOSE r \in rows : TRUE)
       THEN tx' = [tx EXCEPT ![t].error = "cannot_be_removed", ![t].pc = "failed"]
       ELSE tx' = [tx EXCEPT ![t].found = FirstId(rows), ![t].pc = "expire"]
    /\ UNCHANGED <<now, tables, ops, hist>>

\* UPDATE terminal_sessions SET expires_at = NOW() WHERE id = $1; return true
R_Expire(t) ==
    /\ tx[t].op = "removeTerminalSession"
    /\ tx[t].pc = "expire"
    /\ terminalSessions' =
           (terminalSessions \ TerminalById(tx[t].arg.id)) \cup
           {ExpiredRow(r) : r \in TerminalById(tx[t].arg.id)}
    /\ tx' = [tx EXCEPT ![t].result = [removed |-> TRUE], ![t].stamp = now,
                        ![t].pc = "done"]
    /\ UNCHANGED <<now, projects, contacts, projectContacts, callSessions, ops, hist>>

removeTerminalSession(t) ==
    \/ \E id \in {1, 2, 3, 7} : R_Begin(t, id)
    \/ R_Get(t)
    \/ R_Expire(t)

\* Stored terminal sessions: one of pA that may not be overridden and one of
\* contact 1 that may, both permanent; one global one that expires at hour 1
\* and may be overridden.
InitTerminal ==
    /\ now = 0
    /\ projects = {SeedProject}
    /\ contacts = {SeedContact}
    /\ projectContacts = {}
    /\ callSessions = {}
    /\ terminalSessions =
          {TerminalRow(1, "project", 1, NoId, NoTime),
           [TerminalRow(2, "contact", NoId, 1, NoTime) EXCEPT !.override_allowed = "true"],
           [TerminalRow(3, "global", NoId, NoId, 1) EXCEPT !.override_allowed = "true"]}
    /\ tx = [t \in Procs |-> IdleTx]
    /\ ops = 0
    /\ hist = <<NoHist, NoHist>>

NextTerminal ==
    \/ Tick
    \/ \E t \in Procs : createTerminalSession(t)
    \/ \E t \in Procs : removeTerminalSession(t)

SpecTerminal == InitTerminal /\ [][NextTerminal]_vars

(* Specification of the terminal check: callers ask hasActiveTerminalSession *)
(* while the clock advances and overridable terminal sessions are removed.  *)

\* TerminalService.hasActiveTerminalSession(scope, resourceId), asked by t
H_Ask(t) ==
    /\ Free(t)
    /\ \E q \in {<<"global", NoId>>, <<"project", 1>>, <<"project", 2>>,
                  <<"contact", 1>>, <<"contact", 9>>} :
          tx' = Answer(t, "hasActiveTerminalSession",
                       [scope |-> q[1], resourceId |-> q[2]],
                       [hasTerminal |-> hasActiveTerminalSession(q[1], q[2])])
    /\ UNCHANGED <<now, tables, ops, hist>>

NextActive ==
    \/ Tick
    \/ \E t \in Procs : H_Ask(t)
    \/ \E t \in Procs : removeTerminalSession(t)

SpecActive == InitTerminal /\ [][NextActive]_vars

-----------------------------------------------------------------------------
(* A dialler that asks before it calls: each caller records a session for a
   project only after isProjectEligible answered eligible to that caller.
   The answer and the createCallSession that follows are separate requests;
   nothing in the services ties them together. *)

\* CallEligibilityService.isProjectEligible(k), asked by caller t
G_Check(t) ==
    /\ Free(t)
    /\ \E k \in {"pA", "pX"} :
          tx' = Answer(t, "isProjectEligible",
                       [project_id |-> k, contact_id |-> NoId],
                       isProjectEligible(k))
    /\ UNCHANGED <<now, tables, ops, hist>>

\* caller t holds the answer eligible for the project of payload s
Cleared(t, s) ==
    /\ tx[t].op = "isProjectEligible"
    /\ tx[t].pc = "done"
    /\ tx[t].arg.project_id = s.project_id
    /\ tx[t].result.eligible

\* createCallSession(s), started by a caller that holds the answer
G_Create(t) ==
    \E s \in SessionPayloads : Cleared(t, s) /\ CS_Begin(t, s)

guardedCreateCallSession(t) ==
    \/ G_Check(t)
    \/ G_Create(t)
    \/ CS_IdemCheck(t)
    \/ CS_GetProject(t)
    \/ CS_ContactLookup(t)
    \/ CS_Insert(t)
    \/ CS_AfterInsert(t)
    \/ CS_Commit(t)
    \/ CS_Rollback(t)

NextGuarded == Tick \/ \E t \in Procs : guardedCreateCallSession(t)

SpecGuarded == InitCall /\ [][NextGuarded]_vars

-----------------------------------------------------------------------------
(* Properties of the project service *)

\* the fields of a project row that a payload can set, with its internal id
ProjectsAgree(r1, r2) == r1 = r2

\* C6: upsertProject(P) followed by upsertProject(P) leaves one row for
\* P.project_id, identical field for field (internal id included) to the row
\* the first call left.
C6_UpsertTwiceSameRow ==
    (/\ hist[1].op = "upsertProject"
     /\ hist[2].op = "upsertProject"
     /\ hist[1].arg = hist[2].arg)
    => /\ ProjectsAgree(hist[2].row, hist[1].row)
       /\ Cardinality(ProjectByKey(hist[2].arg.project_id)) = 1

-----------------------------------------------------------------------------
(* Properties of the contact service *)

\* C8: at most one contact row per non-null contact_id, per non-null phone
\* number and per non-null email.
C8_ContactKeysUnique ==
    \A r1, r2 \in contacts :
        r1.id # r2.id =>
            /\ r1.contact_id = NULL \/ r1.contact_id # r2.contact_id
            /\ r1.phonenumber = NULL \/ r1.phonenumber # r2.phonenumber
            /\ r1.email = NULL \/ r1.email # r2.email

\* the step in which caller t ends its upsertContact
ContactCallEnds(t) ==
    /\ tx[t].op = "upsertContact"
    /\ ~Finished(t)
    /\ tx'[t].pc \in {"done", "failed"}

\* C9: when a row RA has contact_id A and another row RB has phone B, an
\* upsertContact whose payload carries contact_id A and phone B (and that no
\* other call overlaps) succeeds, stores the payload in RA and leaves RB as
\* it was.
C9_ExternalIdBeatsPhone ==
    [][\A t \in Procs :
         (/\ ContactCallEnds(t)
          /\ tx[t].alone
          /\ ~Falsy(tx[t].arg.contact_id)
          /\ ~Falsy(tx[t].arg.phonenumber))
         => \A ra \in ContactByExternalId(tx[t].arg.contact_id) :
              \A rb \in ContactByPhone(tx[t].arg.phonenumber) :
                 ra.id # rb.id =>
                    /\ tx'[t].pc = "done"
                    /\ rb \in contacts'
                    /\ ContactUpdateRow(ra, tx[t].arg) \in contacts'
                    /\ tx'[t].result = ContactUpdateRow(ra, tx[t].arg)]_vars

\* C9 witness: a call carrying contact_id cA and phone ph2 has ended with the
\* row of cA now holding ph2 and another row still holding ph2.
C9_Witness ==
    \E t \in Procs :
        /\ tx[t].op = "upsertContact"
        /\ tx[t].pc = "done"
        /\ tx[t].alone
        /\ tx[t].arg.contact_id = "cA"
        /\ tx[t].arg.phonenumber = "ph2"
        /\ \E ra, rb \in contacts :
              /\ ra.id # rb.id
              /\ ra = tx[t].result
              /\ ra.contact_id = "cA"
              /\ ra.phonenumber = "ph2"
              /\ rb.phonenumber = "ph2"
              /\ rb.contact_id # "cA"

-----------------------------------------------------------------------------
(* Properties of the session ledger *)

\* the writes a createCallSession call makes when it records its session
SessionWrites(t) ==
    {"call_session", "last_contacted_at", "next_call_eligible_at"} \cup
    (IF tx[t].contact # NoId THEN {"project_contact"} ELSE {})

\* the sessions createCallSession has recorded
Recorded == callSessions \ {SeedSession}

\* the cooldown of project row p has been extended
Extended(p) ==
    p.last_contacted_at # NoTime \/ p.next_call_eligible_at # NoTime

CreatedAlone(t) ==
    /\ tx[t].op = "createCallSession"
    /\ Finished(t)
    /\ tx[t].alone
    /\ tx[t].found = NoId
    /\ ProjectByKey(tx[t].arg.project_id) # {}

\* C4: a createCallSession call for project X records the session and sets
\* X.next_call_eligible_at to the instant of the call + 24 hours.
C4_CreateSetsCooldown ==
    \A t \in Procs :
        CreatedAlone(t) =>
            /\ tx[t].pc = "done"
            /\ \A r \in ProjectByKey(tx[t].arg.project_id) :
                  r.next_call_eligible_at \in
                      {at + CooldownHours : at \in tx[t].began..now}

\* C7: a createCallSession call whose call_session_id is stored succeeds,
\* returns the stored row, and changes nothing: the row keeps its fields, no
\* second row has the key and no side effect is written.
C7_ReplayReturnsStoredRow ==
    \A t \in Procs :
        (/\ tx[t].op = "createCallSession"
         /\ Finished(t)
         /\ ~Falsy(tx[t].arg.call_session_id)
         /\ CallSessionByKey(tx[t].arg.call_session_id) # {})
        => /\ tx[t].pc = "done"
           /\ CallSessionByKey(tx[t].arg.call_session_id) = {SeedSession}
           /\ tx[t].result = MapRowToCallSession(SeedSession, UNDEF)
           /\ tx[t].wrote = {}

\* C7 witness: a call with the stored key s1 and another call_status has
\* returned the stored row.
C7_Witness ==
    \E t \in Procs :
        /\ tx[t].op = "createCallSession"
        /\ tx[t].pc = "done"
        /\ tx[t].arg.call_session_id = SeedSession.call_session_id
        /\ tx[t].arg.call_status # SeedSession.call_status
        /\ tx[t].result.call_status = SeedSession.call_status
        /\ callSessions = {SeedSession}

\* two callers have ended the same operation op on the same key
BothEnded(t, u, op, k) ==
    /\ t # u
    /\ tx[t].op = op /\ tx[u].op = op
    /\ Finished(t) /\ Finished(u)
    /\ ~tx[t].alone /\ ~tx[u].alone
    /\ ~Falsy(k)

\* C10 (projects): after two concurrent upsertProject calls of one project_id
\* exactly one row has it.
C10_ProjectsOneRow ==
    \A t, u \in Procs :
        (/\ BothEnded(t, u, "upsertProject", tx[t].arg.project_id)
         /\ tx[t].arg.project_id = tx[u].arg.project_id)
        => Cardinality(ProjectByKey(tx[t].arg.project_id)) = 1

\* C10 (contacts): after two concurrent upsertContact calls of one contact_id
\* exactly one row has it.
C10_ContactsOneRow ==
    \A t, u \in Procs :
        (/\ BothEnded(t, u, "upsertContact", tx[t].arg.contact_id)
         /\ tx[t].arg.contact_id = tx[u].arg.contact_id)
        => Cardinality(ContactByExternalId(tx[t].arg.contact_id)) = 1

\* C10 (call sessions): after two concurrent createCallSession calls of one
\* call_session_id, for a stored project, exactly one row has it.
C10_SessionsOneRow ==
    \A t, u \in Procs :
        (/\ BothEnded(t, u, "createCallSession", tx[t].arg.call_session_id)
         /\ tx[t].arg.call_session_id = tx[u].arg.call_session_id
         /\ ProjectByKey(tx[t].arg.project_id) # {}
         /\ ProjectByKey(tx[u].arg.project_id) # {})
        => Cardinality(CallSessionByKey(tx[t].arg.call_session_id)) = 1

\* C10: concurrent upserts of one new external key (project_id, contact_id or
\* call_session_id) leave exactly one row with that key.
C10_OneRowPerRacedKey ==
    /\ C10_ProjectsOneRow
    /\ C10_ContactsOneRow
    /\ C10_SessionsOneRow

-----------------------------------------------------------------------------
(* Properties of the eligibility decisions *)

\* a stored terminal session is active: it never expires or expires later
Active(r) == r.expires_at = NoTime \/ r.expires_at > now

\* caller t holds the answer to op, asked at this instant
AnsweredNow(t, op) ==
    /\ tx[t].op = op
    /\ tx[t].pc = "done"
    /\ tx[t].began = now

\* C2: while an active global-scope terminal session exists, isProjectEligible
\* and isProjectContactEligible answer eligible = false and getEligibleCalls
\* returns no pair.
C2_GlobalTerminalBlocksAll ==
    \A t \in Askers :
        (\E r \in terminalSessions : r.scope = "global" /\ Active(r)) =>
            /\ AnsweredNow(t, "isProjectEligible") => ~tx[t].result.eligible
            /\ AnsweredNow(t, "isProjectContactEligible") => ~tx[t].result.eligible
            /\ AnsweredNow(t, "getEligibleCalls") => tx[t].result.rows = <<>>

\* the internal ids of the project the question of caller t names
AskedProjects(t) == {p.id : p \in ProjectByKey(tx[t].arg.project_id)}

\* C3: with an active project-scoped terminal session for P, isProjectEligible(P)
\* and isProjectContactEligible(P, C) answer eligible = false; with an active
\* contact-scoped one for C, isContactEligible(C) and
\* isProjectContactEligible(P, C) answer eligible = false.
C3_ScopedTerminalBlocks ==
    \A t \in Askers : \A r \in terminalSessions :
        /\ (/\ r.scope = "project" /\ Active(r)
            /\ \/ AnsweredNow(t, "isProjectEligible")
               \/ AnsweredNow(t, "isProjectContactEligible")
            /\ r.project_id \in AskedProjects(t))
           => ~tx[t].result.eligible
        /\ (/\ r.scope = "contact" /\ Active(r)
            /\ \/ AnsweredNow(t, "isContactEligible")
               \/ AnsweredNow(t, "isProjectContactEligible")
            /\ r.contact_id = tx[t].arg.contact_id)
           => ~tx[t].result.eligible

\* C3 witness: the pair (pA, 1) was denied for the terminal session of pA, which
\* is not suppressed, not cooling down and has no sessions.
C3_Witness ==
    \E t \in Askers :
        /\ AnsweredNow(t, "isProjectContactEligible")
        /\ tx[t].arg = [project_id |-> "pA", contact_id |-> 1]
        /\ \E r \in terminalSessions :
              r.scope = "project" /\ r.project_id = 1 /\ r.expires_at > now
        /\ \A p \in ProjectByKey("pA") :
              p.call_suppressed = "false" /\ p.next_call_eligible_at = NoTime
        /\ callSessions = {}
        /\ tx[t].result = NotEligible("Terminal session exists")

-----------------------------------------------------------------------------
(* Properties of the upsert race *)

\* C11: a caller of upsertProject whose key has a surviving row when the call
\* ends has received that row: a unique-constraint violation on its insert was
\* retried inside the call and not surfaced.
C11_RaceLoserReceivesRow ==
    \A t \in Procs :
        (/\ tx[t].op = "upsertProject"
         /\ Finished(t)
         /\ ProjectByKey(tx[t].arg.project_id) # {})
        => /\ tx[t].pc = "done"
           /\ tx[t].result.id \in {r.id : r \in ProjectByKey(tx[t].arg.project_id)}

-----------------------------------------------------------------------------
(* Properties of the fatigue limits *)

\* the sessions of project row p started on the day of the clock
SessionsToday(p) ==
    {r \in callSessions : r.project_id = p.id /\ r.started_at \div 24 = now \div 24}

\* nothing but fatigue can deny project row p: it is not suppressed, no
\* terminal session of its scope or of the global scope is active, and its
\* cooldown is over
NoOtherBlocker(p) ==
    /\ p.call_suppressed = "false"
    /\ \A r \in terminalSessions :
          Active(r) => r.scope = "contact" \/ (r.scope = "project" /\ r.project_id # p.id)
    /\ (p.next_call_eligible_at = NoTime \/ p.next_call_eligible_at <= now)

\* C12: with exactly 3 sessions of project X started today and no other
\* blocker, isProjectEligible(X) answers eligible = false with the daily-limit
\* reason; with exactly 2 it answers eligible = true.
C12_DailyLimitBoundary ==
    \A t \in Askers : \A p \in projects :
        (/\ AnsweredNow(t, "isProjectEligible")
         /\ tx[t].arg.project_id = p.project_id
         /\ NoOtherBlocker(p))
        => /\ Cardinality(SessionsToday(p)) = 3
                => tx[t].result = NotEligible("Daily call limit reached")
           /\ Cardinality(SessionsToday(p)) = 2
                => tx[t].result = Eligible

\* C12 witness: project pA with 3 sessions today and nothing else against it
\* was denied for the daily limit.
C12_Witness ==
    \E t \in Askers : \E p \in ProjectByKey("pA") :
        /\ AnsweredNow(t, "isProjectEligible")
        /\ tx[t].arg.project_id = "pA"
        /\ NoOtherBlocker(p)
        /\ Cardinality(SessionsToday(p)) = 3
        /\ tx[t].result.reason = "Daily call limit reached"

-----------------------------------------------------------------------------
(* Properties of the ledger under updates *)

\* C13: no step reduces the number of call_sessions rows of a project, and
\* every row keeps its project_id, contact_id and started_at, whatever the
\* update payload carries.
C13_AppendOnlyLedger ==
    [][/\ \A p \in projects :
             Cardinality({r \in callSessions' : r.project_id = p.id})
                 >= Cardinality({r \in callSessions : r.project_id = p.id})
       /\ \A r \in callSessions : \E r2 \in callSessions' :
             /\ r2.id = r.id
             /\ r2.project_id = r.project_id
             /\ r2.contact_id = r.contact_id
             /\ r2.started_at = r.started_at]_vars

\* C13 witness: an update that carried project_id, contact_id and started_at
\* has been applied (its outcome is stored) and the row has kept the three.
C13_Witness ==
    \E t \in Procs : \E r \in callSessions :
        /\ tx[t].op = "updateCallSession"
        /\ tx[t].pc = "done"
        /\ tx[t].arg.updates.project_id = "pB"
        /\ tx[t].arg.updates.started_at = 1
        /\ r.id = tx[t].arg.id
        /\ r.outcome = "o1"
        /\ r.project_id = 1 /\ r.contact_id # 9 /\ r.started_at = 0

\* C14: a call_sessions row whose ended_at is set is never changed again.
C14_EndedSessionFrozen ==
    [][\A r \in callSessions : r.ended_at # NoTime => r \in callSessions']_vars

-----------------------------------------------------------------------------
(* Properties of the terminal sessions *)

\* C15: removeTerminalSession(id) on a row whose override_allowed is false
\* fails with the permission error, and no step changes a field of such a row.
C15_ProtectedRowStays ==
    /\ [](\A t \in Procs : \A r \in terminalSessions :
            (/\ tx[t].op = "removeTerminalSession"
             /\ Finished(t)
             /\ r.id = tx[t].arg.id
             /\ Falsy(r.override_allowed))
            => tx[t].pc = "failed" /\ tx[t].error = "cannot_be_removed")
    /\ [][\A r \in terminalSessions :
             Falsy(r.override_allowed) => r \in terminalSessions']_vars

\* C15 witness: the removal of the protected row 1 was refused and the row is
\* stored as it was, still active.
C15_Witness ==
    \E t \in Procs :
        /\ tx[t].op = "removeTerminalSession"
        /\ tx[t].arg.id = 1
        /\ tx[t].pc = "failed"
        /\ tx[t].error = "cannot_be_removed"
        /\ TerminalRow(1, "project", 1, NoId, NoTime) \in terminalSessions

\* a stored terminal session has expired
Expired(r, at) == r.expires_at # NoTime /\ r.expires_at <= at

\* C16: a successful removeTerminalSession(id) leaves the row stored with
\* expires_at not later than now; no step deletes a terminal row, and a row
\* that has expired stays expired, so hasActiveTerminalSession never counts
\* it again.
C16_RemovedRowStaysInactive ==
    /\ [](\A t \in Procs :
            (/\ tx[t].op = "removeTerminalSession"
             /\ tx[t].pc = "done"
             /\ tx[t].result.removed)
            => \E r \in terminalSessions : r.id = tx[t].arg.id /\ Expired(r, now))
    /\ [][\A r \in terminalSessions : \E r2 \in terminalSessions' :
             /\ r2.id = r.id
             /\ Expired(r, now) => Expired(r2, now')]_vars

\* C16 witness: the permanent row 2 was removed at an earlier hour, it is
\* stored, and it is not active.
C16_Witness ==
    \E t \in Procs : \E r \in terminalSessions :
        /\ tx[t].op = "removeTerminalSession"
        /\ tx[t].pc = "done"
        /\ tx[t].result.removed
        /\ tx[t].arg.id = 2
        /\ tx[t].stamp < now
        /\ r.id = 2
        /\ r.expires_at = tx[t].stamp
        /\ ~hasActiveTerminalSession("contact", 1)

\* the ids of request s are exactly the ones its scope requires
ScopeMatches(s) ==
    \/ s.scope = "project" /\ ~Falsy(s.project_id) /\ s.contact_id = NoId
    \/ s.scope = "contact" /\ s.contact_id # NoId /\ Falsy(s.project_id)
    \/ s.scope = "global" /\ Falsy(s.project_id) /\ s.contact_id = NoId

\* C17: createTerminalSession rejects every request whose ids do not match
\* its scope, and every stored row has exactly the id its scope requires.
C17_ScopeMismatchRejected ==
    /\ \A t \in Procs :
          (/\ tx[t].op = "createTerminalSession"
           /\ Finished(t)
           /\ tx[t].found = NoId
           /\ ~ScopeMatches(tx[t].arg))
          => tx[t].pc = "failed"
    /\ \A r \in terminalSessions : ScopeCheck(r)

-----------------------------------------------------------------------------
(* Properties of the eligibility answers on unresolved references *)

\* the question of caller t names a project or a contact that is not stored
UnresolvedReference(t) ==
    \/ ~Falsy(tx[t].arg.project_id) /\ ProjectByKey(tx[t].arg.project_id) = {}
    \/ tx[t].arg.contact_id # NoId /\ ContactById(tx[t].arg.contact_id) = {}

\* C18: isProjectEligible, isContactEligible and isProjectContactEligible never
\* answer eligible = true when a project or contact reference passed to them
\* resolves to no stored row.
C18_NoFailOpen ==
    \A t \in Askers :
        (/\ \/ AnsweredNow(t, "isProjectEligible")
            \/ AnsweredNow(t, "isContactEligible")
            \/ AnsweredNow(t, "isProjectContactEligible")
         /\ UnresolvedReference(t))
        => ~tx[t].result.eligible

-----------------------------------------------------------------------------
(* Frame properties of the upserts *)

\* C19: no step of upsertProject changes the last_contacted_at or the
\* next_call_eligible_at of a stored project.
C19_CooldownFieldsFramed ==
    [][\A r \in projects : \A r2 \in projects' :
          r2.id = r.id =>
              /\ r2.last_contacted_at = r.last_contacted_at
              /\ r2.next_call_eligible_at = r.next_call_eligible_at]_vars

\* the fields of a project and of a contact payload that may be absent
ProjectTextFields == {"name", "address", "country", "call_suppressed"}
ProjectTimeFields == {"last_contacted_at", "next_call_eligible_at"}
ContactTextFields == {"contact_id", "name", "email", "phonenumber", "do_not_call"}

\* row r2 has the stored value of row r in every field payload p leaves out
AbsentFieldsKept(r, r2, p, text, time) ==
    /\ \A f \in text : p[f] = UNDEF => r2[f] = r[f]
    /\ \A f \in time : p[f] = UndefTime => r2[f] = r[f]

\* caller t commits the UPDATE of an upsert of kind op in this step
CommitsUpdate(t, op) ==
    /\ tx[t].op = op
    /\ tx[t].pc = "commit"
    /\ tx[t].pending.kind = "update"
    /\ tx'[t].pc = "done"

\* C20: the update of an existing project by upsertProject and of a matched
\* contact by upsertContact leaves every field that is absent from the payload
\* with its stored value.
C20_AbsentFieldsUntouched ==
    [][\A t \in Procs :
          /\ CommitsUpdate(t, "upsertProject") =>
                \A r \in ProjectById(tx[t].pending.row.id) :
                    \E r2 \in projects' :
                        /\ r2.id = r.id
                        /\ AbsentFieldsKept(r, r2, tx[t].arg, ProjectTextFields,
                                            ProjectTimeFields)
          /\ CommitsUpdate(t, "upsertContact") =>
                \A r \in ContactById(tx[t].pending.row.id) :
                    \E r2 \in contacts' :
                        /\ r2.id = r.id
                        /\ AbsentFieldsKept(r, r2, tx[t].arg, ContactTextFields, {})]_vars

\* C20 witness: a project stored with call_suppressed = true and country NZ
\* was updated by a payload without the two fields and has kept both.
C20_Witness ==
    \E t \in Procs :
        /\ tx[t].op = "upsertProject"
        /\ tx[t].pc = "done"
        /\ tx[t].arg.call_suppressed = UNDEF
        /\ tx[t].arg.country = UNDEF
        /\ tx[t].arg.next_call_eligible_at = UndefTime
        /\ tx[t].result.call_suppressed = "true"
        /\ tx[t].result.country = "NZ"
        /\ tx[t].result.next_call_eligible_at = 1
        /\ tx[t].result \in projects


-----------------------------------------------------------------------------
(* Referential integrity of the session ledger *)

\* the stored projects whose external key is k
StoredProjects(k) == {r \in projects : r.project_id = k}

\* a createCallSession call for a project key that no stored project has, has
\* ended
EndedForMissingProject(t) ==
    /\ tx[t].op = "createCallSession"
    /\ Finished(t)
    /\ StoredProjects(tx[t].arg.project_id) = {}

\* the call has failed with project-not-found and has written nothing
RejectedAsMissing(t) ==
    /\ tx[t].pc = "failed"
    /\ tx[t].error = "project_not_found"
    /\ tx[t].result = NoRow
    /\ tx[t].wrote = {}
    /\ tx[t].pending = NoWrite

\* every stored call session references a stored project
SessionsReferToProjects ==
    \A r \in callSessions : \E p \in projects : p.id = r.project_id

\* C21: a createCallSession call whose project_id matches no stored project,
\* and whose call_session_id is not the key of a stored session, fails with
\* project-not-found, inserts no session and writes no project or association
\* row; every stored call session references a stored project.
C21_MissingProjectRejected ==
    /\ \A t \in Procs :
          (EndedForMissingProject(t) /\ tx[t].found = NoId) => RejectedAsMissing(t)
    /\ SessionsReferToProjects

\* C21 witness: a call for the missing project pX under the new key s2 has
\* failed with project-not-found.
C21_Witness ==
    \E t \in Procs :
        /\ EndedForMissingProject(t)
        /\ tx[t].arg.call_session_id = "s2"
        /\ tx[t].found = NoId
        /\ RejectedAsMissing(t)

\* C21 as stated: every createCallSession call whose project_id matches no
\* stored project fails with project-not-found.
C21_AnyMissingProjectRejected ==
    \A t \in Procs : EndedForMissingProject(t) => RejectedAsMissing(t)


-----------------------------------------------------------------------------
(* Properties of the association manager *)

\* C22: an upsertProjectContact call that ran alone and left (or found) a row
\* for its pair has succeeded, the pair has exactly one row, and the call
\* returned that row; so for the second of two calls with the same payload.
C22_LinkUpsertIdempotent ==
    \A t \in Procs :
        (/\ tx[t].op = "upsertProjectContact"
         /\ Finished(t)
         /\ tx[t].alone
         /\ ProjectContactByPair(tx[t].arg.project_id, tx[t].arg.contact_id) # {})
        => /\ tx[t].pc = "done"
           /\ ProjectContactByPair(tx[t].arg.project_id, tx[t].arg.contact_id)
                 = {tx[t].result}


-----------------------------------------------------------------------------
(* Retrying a write *)

\* callers t and u have each ended a call of op with the same payload, one
\* after the other
Retried(t, u, op) ==
    /\ t # u
    /\ tx[t].op = op /\ tx[u].op = op
    /\ Finished(t) /\ Finished(u)
    /\ tx[t].alone /\ tx[u].alone
    /\ tx[t].arg = tx[u].arg

\* C23 (call sessions): after createCallSession was called twice with one
\* payload for a stored project, exactly one stored session is the session of
\* that call.
C23_CallRetryOneRow ==
    \A t, u \in Procs :
        (Retried(t, u, "createCallSession") /\ StoredProjects(tx[t].arg.project_id) # {})
        => /\ tx[t].pc = "done" /\ tx[u].pc = "done"
           /\ tx[t].result.id = tx[u].result.id
           /\ \E r \in callSessions : r.id = tx[t].result.id

\* C23: after createTerminalSession was called twice with one payload and
\* succeeded both times, both calls refer to the same stored row: the retry
\* has added no second row.
C23_TerminalRetryOneRow ==
    \A t, u \in Procs :
        (Retried(t, u, "createTerminalSession") /\ tx[t].pc = "done" /\ tx[u].pc = "done")
        => /\ tx[t].result.id = tx[u].result.id
           /\ \E r \in terminalSessions : r.id = tx[t].result.id


-----------------------------------------------------------------------------
(* Order and size of the bulk answer *)

\* row r1 stands rightly before row r2: a higher score, or the same score and
\* a cooldown expiry that is null or not later
InQueryOrder(r1, r2) ==
    /\ r1.score >= r2.score
    /\ r1.score = r2.score =>
          \/ r1.at = NoTime
          \/ r2.at # NoTime /\ r1.at <= r2.at

-----------------------------------------------------------------------------
(* Updating a session that does not exist *)

\* C25: an updateCallSession call on an id that no stored session has fails
\* with not-found, whatever its payload, and returns no row.
C25_MissingSessionNotFound ==
    \A t \in Procs :
        (/\ tx[t].op = "updateCallSession"
         /\ Finished(t)
         /\ \A r \in callSessions : r.id # tx[t].arg.id)
        => /\ tx[t].pc = "failed"
           /\ tx[t].error = "session_not_found"
           /\ tx[t].result = NoRow


-----------------------------------------------------------------------------
(* Check-then-call under concurrency *)

-----------------------------------------------------------------------------
(* Order of the checks of the single-pair decision *)

\* The blockers of the pair (p, c) in the order of the checks, each with the
\* reason its check gives.  A check on a row that does not exist does not
\* hold.
Blockers(p, c) ==
    << [holds |-> ProjectByKey(p) = {}, reason |-> "Project not found"],
       [holds |-> \E r \in ProjectByKey(p) : ~Falsy(r.call_suppressed),
        reason |-> "Project is suppressed"],
       [holds |-> \E r \in ProjectByKey(p) : \E s \in terminalSessions :
                     s.scope = "project" /\ s.project_id = r.id /\ Active(s),
        reason |-> "Terminal session exists"],
       [holds |-> \E r \in ProjectByKey(p) :
                     r.next_call_eligible_at # NoTime /\ r.next_call_eligible_at > now,
        reason |-> "Cooldown period active"],
       [holds |-> \E r \in ProjectByKey(p) :
                     Cardinality(SessionsToday(r)) >= MAX_CALLS_PER_DAY,
        reason |-> "Daily call limit reached"],
       [holds |-> ContactById(c) = {}, reason |-> "Contact not found"],
       [holds |-> \E r \in ContactById(c) : ~Falsy(r.do_not_call),
        reason |-> "Contact has do_not_call flag"],
       [holds |-> \E s \in terminalSessions :
                     s.scope = "contact" /\ s.contact_id = c /\ Active(s),
        reason |-> "Terminal session exists"],
       [holds |-> \E r \in ProjectByKey(p) : \E pc \in projectContacts :
                     /\ pc.project_id = r.id /\ pc.contact_id = c
                     /\ ~Falsy(pc.suppress_for_project),
        reason |-> "Contact suppressed for this project"],
       [holds |-> Cardinality({s \in callSessions :
                     s.contact_id = c /\ s.started_at \div 24 = now \div 24})
                  >= MAX_CALLS_PER_DAY,
        reason |-> "Daily call limit reached"] >>

\* the positions of the blockers that hold
Holding(p, c) == {i \in DOMAIN Blockers(p, c) : Blockers(p, c)[i].holds}

\* the reason of the first blocker that holds
FirstReason(p, c) ==
    LET first == CHOOSE i \in Holding(p, c) : \A j \in Holding(p, c) : i <= j
    IN Blockers(p, c)[first].reason

\* C27: the pair decision answers eligible exactly when no blocker holds, and
\* otherwise gives the reason of the first blocker that holds in the order
\* project existence, call_suppressed, project terminal session, cooldown,
\* project fatigue, contact existence, do_not_call, contact terminal session,
\* suppress_for_project, contact fatigue.
C27_FirstFailingCheckWins ==
    \A t \in Askers :
        AnsweredNow(t, "isProjectContactEligible") =>
            LET p == tx[t].arg.project_id
                c == tx[t].arg.contact_id
            IN IF Holding(p, c) = {}
               THEN tx[t].result.eligible
               ELSE /\ ~tx[t].result.eligible
                    /\ tx[t].result.reason = FirstReason(p, c)

\* C27 witness: the project is suppressed and in cooldown and the contact has
\* do_not_call, and the answer names the project's suppression.
C27_Witness ==
    \E t \in Askers :
        /\ AnsweredNow(t, "isProjectContactEligible")
        /\ {2, 4, 7} \subseteq Holding(tx[t].arg.project_id, tx[t].arg.contact_id)
        /\ tx[t].result.reason = "Project is suppressed"


-----------------------------------------------------------------------------
(* The terminal check and the clock *)

\* row r is of the scope and, for the project and contact scopes, of the
\* resource asked
OfScope(r, scope, resourceId) ==
    /\ r.scope = scope
    /\ scope = "project" => r.project_id = resourceId
    /\ scope = "contact" => r.contact_id = resourceId

\* C28: every answer of hasActiveTerminalSession(scope, resource) is true
\* exactly when, at the instant of the answer, a terminal row of the scope
\* (and resource) has expires_at null or later than now; a row whose
\* expires_at is now or earlier does not count.
C28_ActiveUntilExpiry ==
    [][\A t \in Procs :
          (tx'[t].op = "hasActiveTerminalSession" /\ tx'[t] # tx[t]) =>
              (tx'[t].result.hasTerminal <=>
                  \E r \in terminalSessions :
                      /\ OfScope(r, tx'[t].arg.scope, tx'[t].arg.resourceId)
                      /\ ~(r.expires_at # NoTime /\ r.expires_at <= now))]_vars

\* C28 witness: no operation was called, the clock reached the expires_at of
\* the global terminal session, and the check for the global scope answers
\* false.
C28_Witness ==
    \E t \in Procs :
        /\ AnsweredNow(t, "hasActiveTerminalSession")
        /\ tx[t].arg.scope = "global"
        /\ ops = 0
        /\ now > 0
        /\ \E r \in terminalSessions : r.scope = "global" /\ r.expires_at = now
        /\ ~tx[t].result.hasTerminal


-----------------------------------------------------------------------------
(* The association stamp of createCallSession *)

\* C29: after a createCallSession call for a contact linked to the project,
\* the pair still has its one project_contacts row, with last_contacted_at
\* set to the instant of the call and with the role and the suppression it
\* had.
C29_LinkStamped ==
    \A t \in Procs :
        (/\ tx[t].op = "createCallSession"
         /\ Finished(t)
         /\ tx[t].alone
         /\ tx[t].found = NoId
         /\ StoredProjects(tx[t].arg.project_id) # {}
         /\ tx[t].arg.contact_id = SeedLink.contact_id)
        => /\ Cardinality(ProjectContactByPair(SeedLink.project_id,
                                               SeedLink.contact_id)) = 1
           /\ \A r \in ProjectContactByPair(SeedLink.project_id, SeedLink.contact_id) :
                 /\ r.last_contacted_at \in tx[t].began..now
                 /\ r.suppress_for_project = SeedLink.suppress_for_project
                 /\ r.role_for_project = SeedLink.role_for_project


-----------------------------------------------------------------------------
(* A payload whose phone and email match different contacts *)

\* the payload of caller t matches no row by contact_id, a row by phone, and
\* row re by email only
PhoneAndEmailSplit(t, re) ==
    /\ ContactByExternalId(tx[t].arg.contact_id) = {}
    /\ ~Falsy(tx[t].arg.phonenumber)
    /\ ContactByPhone(tx[t].arg.phonenumber) # {}
    /\ ~Falsy(tx[t].arg.email)
    /\ re \in ContactByEmail(tx[t].arg.email)
    /\ re \notin ContactByPhone(tx[t].arg.phonenumber)

\* C30: when the payload matches no contact_id, its phone matches row RP and
\* its email another row RE, upsertContact succeeds, returns a row matched by
\* the phone and leaves every field of RE as it was.
C30_EmailMatchUntouched ==
    [][\A t \in Procs : \A re \in contacts :
         (ContactCallEnds(t) /\ tx[t].alone /\ PhoneAndEmailSplit(t, re))
         => /\ tx'[t].pc = "done"
            /\ \E rp \in ContactByPhone(tx[t].arg.phonenumber) :
                  tx'[t].result.id = rp.id
            /\ tx'[t].result \in contacts'
            /\ re \in contacts']_vars

\* C30 witness: the payload (ph2, e1) has updated the row that had ph2, and
\* the row that had e1, without a phone, is still stored.
C30_Witness ==
    \E t \in Procs :
        /\ tx[t].op = "upsertContact"
        /\ tx[t].pc = "done"
        /\ tx[t].alone
        /\ tx[t].arg.contact_id = UNDEF
        /\ tx[t].arg.phonenumber = "ph2"
        /\ tx[t].arg.email = "e1"
        /\ tx[t].found = tx[t].result.id
        /\ tx[t].result \in contacts
        /\ \E re \in contacts :
              /\ re.id # tx[t].result.id
              /\ re.email = "e1"
              /\ re.phonenumber = NULL


-----------------------------------------------------------------------------
(* Concurrent upserts of one phone number *)

\* C31: after two concurrent upsertContact calls that carry the same phone
\* number and no contact_id, exactly one contact row has that phone number.
C31_OneRowPerRacedPhone ==
    \A t, u \in Procs :
        (/\ BothEnded(t, u, "upsertContact", tx[t].arg.phonenumber)
         /\ tx[t].arg.phonenumber = tx[u].arg.phonenumber
         /\ Falsy(tx[t].arg.contact_id)
         /\ Falsy(tx[u].arg.contact_id))
        => Cardinality(ContactByPhone(tx[t].arg.phonenumber)) = 1


-----------------------------------------------------------------------------
(* Concurrent upserts of one stored project *)

InitProjectStored ==
    /\ now = 0
    /\ projects = {SeedProject}
    /\ contacts = {}
    /\ projectContacts = {}
    /\ callSessions = {}
    /\ terminalSessions = {}
    /\ tx = [t \in Procs |-> IdleTx]
    /\ ops = 0
    /\ hist = <<NoHist, NoHist>>

SpecProjectStored == InitProjectStored /\ [][NextProject]_vars

\* the row left by the update with payload p followed by the one with q
SerialRow(r0, p, q) == ProjectUpdateRow(ProjectUpdateRow(r0, p), q)

\* callers t and u have ended overlapping upsertProject calls of one project
\* that both found stored
RacedUpdates(t, u) ==
    /\ BothEnded(t, u, "upsertProject", tx[t].arg.project_id)
    /\ tx[t].arg.project_id = tx[u].arg.project_id
    /\ tx[t].found # NoId /\ tx[u].found # NoId

\* C32: two concurrent upsertProject calls on one stored project both succeed
\* and the stored row is the one a serial run of the two calls leaves in one
\* of the two orders: it is the later call's result, which is the later
\* payload applied to the earlier call's result, and when the two calls are
\* the only ones so far it is one of the two serial rows over the seeded row.
C32_ConcurrentUpdatesSerial ==
    \A t, u \in Procs :
        RacedUpdates(t, u) =>
            /\ tx[t].pc = "done" /\ tx[u].pc = "done"
            /\ \E f \in projects :
                /\ ProjectByKey(tx[t].arg.project_id) = {f}
                /\ \/ f = tx[u].result /\ f = ProjectUpdateRow(tx[t].result, tx[u].arg)
                   \/ f = tx[t].result /\ f = ProjectUpdateRow(tx[u].result, tx[t].arg)
                /\ (ops = 2 /\ f.id = SeedProject.id) =>
                       f \in {SerialRow(SeedProject, tx[t].arg, tx[u].arg),
                              SerialRow(SeedProject, tx[u].arg, tx[t].arg)}

\* two raced updates whose payloads set different fields, so that the two
\* serial orders and a lost update would all differ from the stored row
C32_Witness ==
    \E t, u \in Procs :
        /\ RacedUpdates(t, u)
        /\ ops = 2
        /\ tx[t].arg.address = "a1" /\ tx[u].arg.country = "NZ"
        /\ \E f \in projects : f.address = "a1" /\ f.country = "NZ"


-----------------------------------------------------------------------------
(* Replay of a stored call session *)

\* caller t takes a step of a createCallSession call whose call_session_id
\* is stored
ReplayStep(t) ==
    /\ tx'[t] # tx[t]
    /\ tx'[t].op = "createCallSession"
    /\ ~Falsy(tx'[t].arg.call_session_id)
    /\ CallSessionByKey(tx'[t].arg.call_session_id) # {}

\* C33: a createCallSession call replayed with a stored call_session_id has
\* no side effect: it returns from the idempotency lookup, before the project
\* lookup, the INSERT and the updates, so none of its steps holds a write or
\* changes a project row or a project_contacts row.
C33_ReplayNoSideEffect ==
    [][\A t \in Procs :
          ReplayStep(t) =>
              /\ tx'[t].pc \in {"idem", "commit", "done"}
              /\ tx'[t].pending = NoWrite
              /\ tx'[t].wrote = {}
              /\ projects' = projects
              /\ projectContacts' = projectContacts
              /\ callSessions' = callSessions]_vars

\* C33 witness: a replay of the stored key s1 that carries contact 1 has
\* returned, and the project keeps its timestamps and has no link row.
C33_Witness ==
    \E t \in Procs :
        /\ tx[t].op = "createCallSession"
        /\ tx[t].pc = "done"
        /\ tx[t].arg.call_session_id = SeedSession.call_session_id
        /\ tx[t].arg.contact_id = SeedContact.id
        /\ tx[t].found = SeedSession.id
        /\ projects = {SeedProject}
        /\ projectContacts = {}


-----------------------------------------------------------------------------
(* Replay of a stored terminal session: the store holds a permanent,
   overridable block of contact 1 under the key k1; callers create terminal
   sessions under k1 with other fields, under a new key and for a project
   that does not exist, and remove rows, while the clock advances. *)

KeyedTerminal ==
    [TerminalRow(1, "contact", NoId, 1, NoTime) EXCEPT !.terminal_id = "k1",
                                                       !.override_allowed = "true"]

ReplayPayloads ==
    {TerminalPayload("k1", "contact", UNDEF, 1, 2, "true"),
     TerminalPayload("k1", "project", "pA", NoId, UndefTime, UNDEF),
     TerminalPayload("k2", "global", UNDEF, NoId, 1, "true"),
     TerminalPayload(UNDEF, "project", "pX", NoId, UndefTime, UNDEF)}

InitReplay ==
    /\ now = 0
    /\ projects = {SeedProject}
    /\ contacts = {SeedContact}
    /\ projectContacts = {}
    /\ callSessions = {}
    /\ terminalSessions = {KeyedTerminal}
    /\ tx = [t \in Procs |-> IdleTx]
    /\ ops = 0
    /\ hist = <<NoHist, NoHist>>

NextReplay ==
    \/ Tick
    \/ \E t \in Procs : \E s \in ReplayPayloads : T_Begin(t, s)
    \/ \E t \in Procs : T_IdemCheck(t)
    \/ \E t \in Procs : T_Resolve(t)
    \/ \E t \in Procs : T_Insert(t)
    \/ \E t \in Procs : T_Commit(t)
    \/ \E t \in Procs : T_Rollback(t)
    \/ \E t \in Procs : removeTerminalSession(t)

SpecReplay == InitReplay /\ [][NextReplay]_vars

\* the questions hasActiveTerminalSession is asked
TerminalQuestions ==
    {<<"global", NoId>>, <<"project", 1>>, <<"contact", 1>>}

\* caller t takes a step of a createTerminalSession call that is about to
\* look up a stored terminal_id or has found one
TerminalReplayStep(t) ==
    /\ tx'[t] # tx[t]
    /\ tx[t].op = "createTerminalSession"
    /\ ~Finished(t)
    /\ \/ tx[t].pc = "idem" /\ TerminalByKey(tx[t].arg.terminal_id) # {}
       \/ tx[t].found # NoId

\* C34: a createTerminalSession call with a stored terminal_id returns from
\* the idempotency lookup: it changes and inserts no row, whatever the stored
\* row's expiry and the payload's other fields, and every answer of
\* hasActiveTerminalSession is the same after each of its steps as before.
C34_TerminalReplayInert ==
    [][\A t \in Procs :
          TerminalReplayStep(t) =>
              /\ tx'[t].pc \in {"idem", "commit", "done"}
              /\ tx'[t].pending = NoWrite
              /\ terminalSessions' = terminalSessions
              /\ \A q \in TerminalQuestions :
                    hasActiveTerminalSession(q[1], q[2])'
                        = hasActiveTerminalSession(q[1], q[2])]_vars

\* C34 witness: the block stored under k1 was removed, a call with k1 and
\* the project scope has then returned the removed row, and contact 1 is
\* not blocked.
C34_Witness ==
    \E t \in Procs :
        /\ tx[t].op = "createTerminalSession"
        /\ tx[t].pc = "done"
        /\ tx[t].arg.terminal_id = "k1"
        /\ tx[t].arg.scope = "project"
        /\ tx[t].result.id = KeyedTerminal.id
        /\ tx[t].result.expires_at # NoTime
        /\ tx[t].result.expires_at <= now
        /\ ~hasActiveTerminalSession("contact", 1)
        /\ ~hasActiveTerminalSession("project", 1)


-----------------------------------------------------------------------------
(* The external identity of a contact row *)

\* C35: no step changes the contact_id of a stored contact row whose
\* contact_id is not null: a payload whose contact_id matches no row and
\* whose phone or email matches one does not overwrite that row's contact_id.
C35_ContactIdKept ==
    [][\A r \in contacts : \A s \in contacts' :
          (r.id = s.id /\ r.contact_id # NULL) => s.contact_id = r.contact_id]_vars


-----------------------------------------------------------------------------
(* A cooldown stored before the call: project pA carries a
   next_call_eligible_at that lies before or after the end of the 24 hour
   cooldown a call recorded now would set, and a session is stored under
   the key s1. *)

\* stored next_call_eligible_at values: within and beyond now + CooldownHours
StoredCooldowns == {1, CooldownHours + MaxTime + 4}

InitCooldown ==
    /\ now = 0
    /\ \E at \in StoredCooldowns :
          projects = {[SeedProject EXCEPT !.next_call_eligible_at = at]}
    /\ contacts = {SeedContact}
    /\ projectContacts = {}
    /\ callSessions = {SeedSession}
    /\ terminalSessions = {}
    /\ tx = [t \in Procs |-> IdleTx]
    /\ ops = 0
    /\ hist = <<NoHist, NoHist>>

SpecCooldown == InitCooldown /\ [][NextCall]_vars

-----------------------------------------------------------------------------
(* The number of pairs a bulk query returns *)

\* the linked pairs that pass every filter of the SELECT and every check of
\* the loop
FullyEligible == {r \in CandidateRows : Admits(r)}

-----------------------------------------------------------------------------
(* Call fatigue at the weekly limit: project pA and contact 1 clear every
   other check; their sessions are some started earlier in the last seven
   days (the first exactly seven days ago), some started today (the first at
   midnight) and possibly one started an hour more than seven days ago. *)

\* the hour of the questions: the 5th and the 23rd hour of the 9th day
FatigueHours == {8 * 24 + 5, 8 * 24 + 23}

\* n sessions of project 1 with contact 1 under the ids base + 1 .. base + n,
\* the first started at first, the others an hour later
SessionsFrom(base, n, first) ==
    {[id |-> base + i, call_session_id |-> NULL, project_id |-> 1,
      contact_id |-> 1, call_status |-> "completed", outcome |-> NULL,
      started_at |-> IF i = 1 THEN first ELSE first + 1,
      ended_at |-> NoTime] : i \in 1..n}

InitFatigue ==
    /\ now \in FatigueHours
    /\ projects = {ProjectRow(1, "pA", "false", NoTime, 1)}
    /\ contacts = {SeedContact}
    /\ projectContacts = {}
    /\ \E earlier \in (MAX_CALLS_PER_WEEK - 3)..MAX_CALLS_PER_WEEK,
          today \in {0, MAX_CALLS_PER_DAY - 1, MAX_CALLS_PER_DAY},
          before \in {0, 1} :
          callSessions = SessionsFrom(0, earlier, now - 7 * 24)
                         \cup SessionsFrom(20, today, now - (now % 24))
                         \cup SessionsFrom(40, before, now - 7 * 24 - 1)
    /\ terminalSessions = {}
    /\ tx = [t \in Procs |-> IdleTx]
    /\ ops = 0
    /\ hist = <<NoHist, NoHist>>

NextFatigue ==
    \E t \in Askers :
        \/ Q_isProjectEligible(t)
        \/ Q_isContactEligible(t)

SpecFatigue == InitFatigue /\ [][NextFatigue]_vars

\* the sessions of project 1 and contact 1 started today, and those started
\* within the last seven days
StartedToday == {s \in callSessions : s.started_at \div 24 = now \div 24}
StartedThisWeek == {s \in callSessions : now - s.started_at <= 7 * 24}

\* caller t holds the answer about project pA or about contact 1
FatigueAnswer(t) ==
    \/ AnsweredNow(t, "isProjectEligible") /\ tx[t].arg.project_id = "pA"
    \/ AnsweredNow(t, "isContactEligible") /\ tx[t].arg.contact_id = 1

\* C38: with fewer than 3 sessions today, exactly 10 sessions within the last
\* 7 days are denied with the weekly-limit reason and exactly 9 pass; with
\* the daily limit reached too the reason is the daily limit.
C38_WeeklyLimitAtTen ==
    \A t \in Procs :
        FatigueAnswer(t) =>
            LET today == Cardinality(StartedToday)
                week == Cardinality(StartedThisWeek)
            IN /\ (today < 3 /\ week = 10) =>
                      /\ ~tx[t].result.eligible
                      /\ tx[t].result.reason = "Weekly call limit reached"
               /\ (today < 3 /\ week = 9) => tx[t].result.eligible
               /\ (today >= 3 /\ week >= 10) =>
                      /\ ~tx[t].result.eligible
                      /\ tx[t].result.reason = "Daily call limit reached"

\* C38 witness: an answer about pA with two sessions today and ten within
\* the seven days, one of them exactly seven days old.
C38_Witness ==
    \E t \in Procs :
        /\ AnsweredNow(t, "isProjectEligible")
        /\ tx[t].arg.project_id = "pA"
        /\ Cardinality(StartedToday) = 2
        /\ Cardinality(StartedThisWeek) = 10
        /\ \E s \in callSessions : s.started_at = now - 7 * 24
        /\ tx[t].result.reason = "Weekly call limit reached"


-----------------------------------------------------------------------------
(* The connection pool: as many connections as there are concurrent callers.
   A caller holds one client from getClient() until its finally block; the
   statements createCallSession sends with query(), and the getClient() of
   upsertProjectContact, need one more connection each, and a request for a
   connection that has waited connectionTimeoutMillis is rejected. *)

\* poolConfig.max, for as many callers
PoolSize == Cardinality(Procs)

\* poolConfig.connectionTimeoutMillis
connectionTimeoutMillis == 10000

\* (a pool whose waiting requests are never rejected)
M_RejectsWaiting == FALSE

\* a request for a connection is rejected after the timeout when one is set
RejectsWaiting == connectionTimeoutMillis > 0

\* the clients checked out by the transactions in flight
ClientsOut == {u \in Procs : ~Free(u)}

\* caller t is at a statement that takes another connection from the pool
UsesPool(t) ==
    /\ tx[t].op = "createCallSession"
    /\ tx[t].pc \in {"getProject", "reselect", "lastContacted", "nextEligible", "link"}

\* a step of createCallSession; one that takes a connection from the pool
\* waits while all are checked out
PL_Call(t) ==
    /\ UsesPool(t) => Cardinality(ClientsOut) < PoolSize
    /\ createCallSession(t)

\* pool.connect() rejects after connectionTimeoutMillis: the statement
\* throws and the catch block rolls back
PL_Timeout(t) ==
    /\ UsesPool(t)
    /\ Cardinality(ClientsOut) >= PoolSize
    /\ RejectsWaiting
    /\ tx' = [tx EXCEPT ![t].error = "connect_timeout", ![t].pc = "rollback"]
    /\ UNCHANGED <<now, tables, ops, hist>>

\* the steps of a call in flight
PL_Continue(t) == (~Free(t) /\ PL_Call(t)) \/ PL_Timeout(t)

NextPool == \E t \in Procs : PL_Call(t) \/ PL_Timeout(t)

SpecPool == InitCall /\ [][NextPool]_vars

\* every call in flight goes on: the event loop runs each continuation and
\* each timer
SpecPoolFair == SpecPool /\ \A t \in Procs : WF_vars(PL_Continue(t))

\* C39: with as many connections as concurrent callers, every
\* createCallSession call that carries a contact ends (commits, or fails and
\* rolls back): none waits for a connection for ever.
C39_CallsComplete ==
    \A t \in Procs :
        (tx[t].op = "createCallSession" /\ ~Free(t) /\ tx[t].arg.contact_id # NoId)
            ~> Finished(t)

\* C39 witness: two overlapping calls that carry a contact have ended after
\* the pool ran out, one of them on the rejected request for a connection.
C39_Witness ==
    \E t, u \in Procs :
        /\ BothEnded(t, u, "createCallSession", tx[t].arg.project_id)
        /\ tx[t].arg.contact_id # NoId /\ tx[u].arg.contact_id # NoId
        /\ tx[t].error = "connect_timeout"

====
